---- MODULE Spec2Model ----
(***************************************************************************)
(* Verification model of the infst / reflux score tracker:                 *)
(*   - GameStateDetector      (reflux-core/src/game/state.rs)              *)
(*   - ShutdownSignal         (reflux-cli/src/shutdown.rs)                 *)
(*   - retry loops and the attachment site                                 *)
(*                            (reflux-cli/src/retry.rs, commands/tracking) *)
(*   - offset search and the relative-distance gate                        *)
(*                            (reflux-core/src/offset/searcher/mod.rs)     *)
(* Each component has its own specification; the variables of the other    *)
(* components stay at their initial values under it.                       *)
(***************************************************************************)
EXTENDS Integers, Sequences, FiniteSets, TLC

VARIABLES
    \* ---- GameStateDetector ----
    last_state,     \* GameStateDetector.last_state
    det_inputs,     \* inputs fed to detect since new()/reset(), oldest first
    det_outputs,    \* values detect returned since new()/reset(), oldest first
    det_prev,       \* last_state as it was when the latest detect was called
    det_start,      \* last_state as it was when the recorded history began
    det_origin,     \* "new" or "reset": what began the recorded history
    \* ---- ShutdownSignal ----
    shutdown,       \* ShutdownSignal.shutdown (AtomicBool)
    mutex,          \* ShutdownSignal.mutex: the set of threads holding it (at most one)
    condq,          \* ShutdownSignal.condvar: threads parked on it and not yet notified
    wpc,            \* per thread: position inside ShutdownSignal::wait
    wexpired,       \* per thread: the duration passed to wait has elapsed
    wret,           \* per thread: value returned by the finished wait
    tpc,            \* per triggering thread: position inside ShutdownSignal::trigger
    w_inside,       \* per thread: trigger calls that began while the thread was inside wait
    w_after,        \* per thread: wait was called after some trigger call had returned
    \* ---- tracking command and retry loops ----
    rpc,            \* position of the tracking thread in run and the retry loops
    db_attempts,    \* load_song_database_with_retry: attempts
    so_result,      \* what the latest search_offsets_with_retry call returned
    db_result,      \* what the latest load_song_database_with_retry call returned
    db_fetches,     \* fetch_song_database_with_fixes calls made by that call
    db_value,       \* the database that call returned, if it returned one
    cancel_at,      \* where the latest retry-loop call observed the shutdown
    \* ---- OffsetSearcher::search_all_with_signatures ----
    spc,            \* the phase the search is at, or "ok" / "err" once it returned
    offsets,        \* the OffsetsCollection being filled
    s_path,         \* how the latest phase got its address: "signature" or "fallback"
    \* ---- OffsetSearcher::validate_signature_offsets ----
    g_pc,           \* "input" before the call, "validated" after it
    g_offsets,      \* the OffsetsCollection passed in
    g_mem,          \* per structure: its validator accepts the address passed in
    g_result,       \* the value returned, and the check that failed
    \* ---- OffsetSearcher::scan_code_for_pattern ----
    sc_pc,          \* "idle", "loop" at the head of the while loop, "done"
    sc_mem,         \* the readable bytes from base_address on
    sc_pattern,     \* the pattern: Some(byte) and None for a wildcard
    sc_chunk,       \* the chunk size
    sc_scanned,     \* scanned (and offset, which grows with it)
    sc_tail,        \* the bytes carried over to the next chunk
    sc_results,     \* the matches pushed so far
    sc_ret,         \* the value returned
    \* ---- OffsetSearcher::search_offset_by_signature ----
    ss_pc,          \* "idle", "call", "done"
    ss_entry,       \* the signature set has the entry
    ss_sigs,        \* per signature of the entry, what it resolves to
    ss_valid,       \* the addresses the validator accepts
    ss_ret,         \* the value returned, and the signature it returned at
    \* ---- the validators ----
    v_pc,           \* "idle", "call", "done"
    v_fn,           \* the validator called
    v_addr,         \* the address passed in
    v_mem,          \* memory: what the k-th read of the validator gives
    v_checks,       \* the build checks integer overflow (debug profile)
    v_ret,          \* "accept", "reject", or "panic"
    \* ---- the offset cache ----
    c_pc,           \* "idle", "start", and what was called since
    c_cache,        \* the OffsetCache in memory
    c_file,         \* the cache file: None, or its content
    c_game,         \* the version of the running game
    c_clock,        \* the system clock, seconds since the epoch
    c_loaded,       \* what load_from_path returned
    c_valid,        \* what is_valid_for returned
    c_try,          \* what try_load_cached_offsets returned
    \* ---- pure functions of the data model ----
    p_pc,           \* "idle", "call", "done"
    p_fn,           \* the function called
    p_in,           \* its arguments
    p_checks,       \* the build checks integer overflow (debug profile)
    p_ret,          \* what it returned, or "panic"
    \* ---- the tracker loop and its ScoreMap ----
    t_prev,         \* the game state of the previous tick
    t_playing,      \* current_playing: None, or the armed (song_id, difficulty)
    t_lamps,        \* the ScoreMap: the lamp stored per (song_id, difficulty)
    t_last,         \* what the last step did
    t_snapshot,     \* the PlayData harvested by the last step, if any
    t_record,       \* the play record emitted by the last step, if any
    \* ---- OffsetSearcher::resolve_signature_targets ----
    rs_pc,          \* "idle", "loop" over the match sites, "done"
    rs_sig,         \* the CodeSignature
    rs_matches,     \* the match sites, as scan_code_for_pattern returns them
    rs_disp,        \* memory: the i32 at an address, or "unreadable"
    rs_i,           \* the index of the next match site
    rs_targets,     \* the targets pushed so far
    rs_log,         \* per match site: what was read and what became of it
    rs_ret          \* the list returned

detVars == <<last_state, det_inputs, det_outputs, det_prev, det_start, det_origin>>

sigVars == <<shutdown, mutex, condq, wpc, wexpired, wret, tpc, w_inside, w_after>>

attVars == <<rpc, db_attempts, so_result, db_result, db_fetches, db_value, cancel_at>>

searchVars == <<spc, offsets, s_path>>

gateVars == <<g_pc, g_offsets, g_mem, g_result>>

scanVars ==
    <<sc_pc, sc_mem, sc_pattern, sc_chunk, sc_scanned, sc_tail, sc_results, sc_ret>>

\* The pure functions of the offset search, each with its inputs and result.
resolveVars ==
    <<rs_pc, rs_sig, rs_matches, rs_disp, rs_i, rs_targets, rs_log, rs_ret>>

sigSearchVars == <<ss_pc, ss_entry, ss_sigs, ss_valid, ss_ret>>

validatorVars == <<v_pc, v_fn, v_addr, v_mem, v_checks, v_ret>>

cacheVars ==
    <<c_pc, c_cache, c_file, c_game, c_clock, c_loaded, c_valid, c_try>>

pureVars == <<p_pc, p_fn, p_in, p_checks, p_ret>>

trackVars == <<t_prev, t_playing, t_lamps, t_last, t_snapshot, t_record>>

funVars == <<scanVars, resolveVars, sigSearchVars, validatorVars, cacheVars, pureVars, trackVars>>

vars == <<detVars, sigVars, attVars, searchVars, gateVars, funVars>>

\* What the actions of one component leave alone.
notDet == <<sigVars, attVars, searchVars, gateVars, funVars>>
notSig == <<detVars, attVars, searchVars, gateVars, funVars>>
notSigAtt == <<detVars, searchVars, gateVars, funVars>>
notSearch == <<detVars, sigVars, attVars, gateVars, funVars>>
notGate == <<detVars, sigVars, attVars, searchVars, funVars>>
stateVars == <<detVars, sigVars, attVars, searchVars, gateVars>>
notScan == <<stateVars, resolveVars, sigSearchVars, validatorVars, cacheVars, pureVars, trackVars>>
notResolve == <<stateVars, scanVars, sigSearchVars, validatorVars, cacheVars, pureVars, trackVars>>
notSigSearch == <<stateVars, scanVars, resolveVars, validatorVars, cacheVars, pureVars, trackVars>>
notValidator == <<stateVars, scanVars, resolveVars, sigSearchVars, cacheVars, pureVars, trackVars>>
notCache == <<stateVars, scanVars, resolveVars, sigSearchVars, validatorVars, pureVars, trackVars>>
notPure == <<stateVars, scanVars, resolveVars, sigSearchVars, validatorVars, cacheVars, trackVars>>
notTrack == <<stateVars, scanVars, resolveVars, sigSearchVars, validatorVars, cacheVars, pureVars>>

(***************************************************************************)
(* GameStateDetector                                                       *)
(***************************************************************************)

GameStates == {"Unknown", "SongSelect", "Playing", "ResultScreen"}

\* How many detect calls are followed between two resets.
MaxTicks == 4

\* i32 values fed as judge markers, and as the song select marker.
MarkerValues == {0, 5}
SelectValues == {0, 1, 2}

DetInputs == [m54 : MarkerValues, m55 : MarkerValues, sel : SelectValues]

\* GameStateDetector::new
DetectorNew == "Unknown"

\* detect with the two early checks in the wrong order.
detect_stay_first(last, judge_marker_54, judge_marker_55, song_select_marker) ==
    IF last = "SongSelect"
    THEN [ret |-> "SongSelect", last_state |-> last]
    ELSE IF judge_marker_54 # 0 /\ judge_marker_55 # 0
    THEN [ret |-> "Playing", last_state |-> "Playing"]
    ELSE IF song_select_marker = 1
    THEN [ret |-> "SongSelect", last_state |-> "SongSelect"]
    ELSE [ret |-> "ResultScreen", last_state |-> "ResultScreen"]

\* detect without the song-select guard.
detect_no_stay(last, judge_marker_54, judge_marker_55, song_select_marker) ==
    IF judge_marker_54 # 0 /\ judge_marker_55 # 0
    THEN [ret |-> "Playing", last_state |-> "Playing"]
    ELSE IF song_select_marker = 1
    THEN [ret |-> "SongSelect", last_state |-> "SongSelect"]
    ELSE [ret |-> "ResultScreen", last_state |-> "ResultScreen"]

\* detect that returns Playing without storing it.
detect_playing_not_stored(last, judge_marker_54, judge_marker_55, song_select_marker) ==
    IF judge_marker_54 # 0 /\ judge_marker_55 # 0
    THEN [ret |-> "Playing", last_state |-> last]
    ELSE IF last = "SongSelect"
    THEN [ret |-> "SongSelect", last_state |-> last]
    ELSE IF song_select_marker = 1
    THEN [ret |-> "SongSelect", last_state |-> "SongSelect"]
    ELSE [ret |-> "ResultScreen", last_state |-> "ResultScreen"]

\* GameStateDetector::detect: the returned state and the stored last_state.
detect(last, judge_marker_54, judge_marker_55, song_select_marker) ==
    IF judge_marker_54 # 0 /\ judge_marker_55 # 0
    THEN [ret |-> "Playing", last_state |-> "Playing"]
    ELSE IF last = "SongSelect"
    THEN [ret |-> "SongSelect", last_state |-> last]
    ELSE IF song_select_marker = 1
    THEN [ret |-> "SongSelect", last_state |-> "SongSelect"]
    ELSE [ret |-> "ResultScreen", last_state |-> "ResultScreen"]

\* reset that leaves the stored state alone.
reset_keeps_state(last) == last

\* GameStateDetector::reset: the stored last_state afterwards.
reset(last) == "Unknown"

DetInit ==
    /\ last_state = DetectorNew
    /\ det_inputs = <<>>
    /\ det_outputs = <<>>
    /\ det_prev = DetectorNew
    /\ det_start = DetectorNew
    /\ det_origin = "new"

Detect ==
    /\ Len(det_inputs) < MaxTicks
    /\ \E in \in DetInputs :
         LET r == detect(last_state, in.m54, in.m55, in.sel) IN
           /\ last_state' = r.last_state
           /\ det_inputs' = Append(det_inputs, in)
           /\ det_outputs' = Append(det_outputs, r.ret)
           /\ det_prev' = last_state
           /\ UNCHANGED <<det_start, det_origin>>
    /\ UNCHANGED notDet

Reset ==
    /\ last_state' = reset(last_state)
    /\ det_inputs' = <<>>
    /\ det_outputs' = <<>>
    /\ det_prev' = reset(last_state)
    /\ det_start' = reset(last_state)
    /\ det_origin' = "reset"
    /\ UNCHANGED notDet

DetNext == Detect \/ Reset

BothMarkersSet(in) == in.m54 # 0 /\ in.m55 # 0

DetLen == Len(det_outputs)

\* C1: a detect call whose two judge markers are both non-zero returns Playing
\* and stores Playing, whatever the previous state and the song select marker
\* are (the first call after new or reset included).
C1_BothMarkersGivePlaying ==
    DetLen > 0 =>
        (BothMarkersSet(det_inputs[DetLen]) =>
            /\ det_outputs[DetLen] = "Playing"
            /\ last_state = "Playing")

\* C1 witness: detect was called with both markers set while the previous state
\* was SongSelect and the song select marker was 1, and it returned Playing.
C1_Witness ==
    /\ DetLen > 0
    /\ det_prev = "SongSelect"
    /\ BothMarkersSet(det_inputs[DetLen])
    /\ det_inputs[DetLen].sel = 1
    /\ det_outputs[DetLen] = "Playing"

\* C2: once the previous state is SongSelect, a detect call whose markers are
\* not both non-zero returns SongSelect whatever the song select marker is; so
\* in the outputs ResultScreen never directly follows SongSelect, and the
\* only successors of SongSelect are SongSelect and Playing.
C2_SongSelectIsSticky ==
    /\ (DetLen > 0 /\ det_prev = "SongSelect" /\ ~BothMarkersSet(det_inputs[DetLen]))
          => (det_outputs[DetLen] = "SongSelect" /\ last_state = "SongSelect")
    /\ \A i \in 1..(DetLen - 1) :
          det_outputs[i] = "SongSelect" =>
            /\ (~BothMarkersSet(det_inputs[i + 1]) => det_outputs[i + 1] = "SongSelect")
            /\ det_outputs[i + 1] # "ResultScreen"
            /\ det_outputs[i + 1] \in {"SongSelect", "Playing"}

\* C2 witness: after SongSelect, a call with markers (0,0) and a song select
\* marker other than 1 was made, and SongSelect was returned again.
C2_Witness ==
    \E i \in 1..(DetLen - 1) :
        /\ det_outputs[i] = "SongSelect"
        /\ det_inputs[i + 1] = [m54 |-> 0, m55 |-> 0, sel |-> 0]
        /\ det_outputs[i + 1] = "SongSelect"

ZeroInput == [m54 |-> 0, m55 |-> 0, sel |-> 0]

\* C3: after reset, a detector fed (0,0,0) on every tick returns ResultScreen
\* on every tick, and its stored state is not Unknown once it has been fed.
C3_ZerosGiveResultScreen ==
    (det_origin = "reset" /\ \A i \in 1..DetLen : det_inputs[i] = ZeroInput) =>
        /\ \A i \in 1..DetLen : det_outputs[i] = "ResultScreen"
        /\ (DetLen > 0 => last_state = "ResultScreen")
        /\ (DetLen = 0 => last_state = "Unknown")

\* C3 witness: a reset, then at least three ticks
\* of (0,0,0), each returning ResultScreen.
C3_Witness ==
    /\ det_origin = "reset"
    /\ DetLen >= 3
    /\ \A i \in 1..DetLen : det_inputs[i] = ZeroInput /\ det_outputs[i] = "ResultScreen"

S3Inputs ==
    << [m54 |-> 0, m55 |-> 0, sel |-> 1],
       [m54 |-> 5, m55 |-> 5, sel |-> 0],
       [m54 |-> 0, m55 |-> 0, sel |-> 0],
       [m54 |-> 0, m55 |-> 0, sel |-> 1] >>

S3Outputs == << "SongSelect", "Playing", "ResultScreen", "SongSelect" >>

\* C4: from Unknown, the inputs (0,0,1), (5,5,0), (0,0,0), (0,0,1) make detect
\* return SongSelect, Playing, ResultScreen, SongSelect in that order.
C4_ScenarioTrace ==
    (det_start = "Unknown" /\ det_inputs = S3Inputs) => det_outputs = S3Outputs

\* C4 witness: the four inputs have been fed from Unknown.
C4_Witness ==
    /\ det_start = "Unknown"
    /\ det_inputs = S3Inputs
    /\ det_outputs = S3Outputs

(***************************************************************************)
(* ShutdownSignal                                                          *)
(***************************************************************************)

\* Threads that call wait directly, and threads that call trigger (the Ctrl+C
\* handler and the keyboard monitor of tracking.rs).
NumWaiters == 2
NumTriggerers == 2

Waiters == 1..NumWaiters
Triggerers == 1..NumTriggerers
\* The thread running the tracking command; it waits through the retry loops.
LoopThread == 0
SigThreads == {LoopThread} \cup Waiters

\* Positions of a thread that is inside wait.
InsideWait == {"check", "lock", "pred", "park", "sleeping", "relock"}

\* The value wait makes of wait_timeout_while's timed_out(), negated.
WaitResult_not_negated(timed_out) == timed_out

\* ShutdownSignal::wait, lines 49-53: the value returned for a timeout result.
WaitResult(timed_out) == ~timed_out

SigInit ==
    /\ shutdown = FALSE
    /\ mutex = {}
    /\ condq = {}
    /\ wpc = [t \in SigThreads |-> "idle"]
    /\ wexpired = [t \in SigThreads |-> FALSE]
    /\ wret = [t \in SigThreads |-> FALSE]
    /\ tpc = [k \in Triggerers |-> "idle"]
    /\ w_inside = [t \in SigThreads |-> {}]
    /\ w_after = [t \in SigThreads |-> FALSE]

\* A thread enters wait(d).
WaitCall(t) ==
    /\ wpc[t] = "idle"
    /\ wpc' = [wpc EXCEPT ![t] = "check"]
    /\ wexpired' = [wexpired EXCEPT ![t] = FALSE]
    /\ w_inside' = [w_inside EXCEPT ![t] = {}]
    /\ w_after' = [w_after EXCEPT ![t] = \E k \in Triggerers : tpc[k] = "done"]
    /\ UNCHANGED <<shutdown, mutex, condq, wret, tpc>>
    /\ UNCHANGED notSig

\* wait, lines 40-42: the early is_shutdown test.
WaitCheck(t) ==
    /\ wpc[t] = "check"
    /\ IF shutdown
       THEN /\ wpc' = [wpc EXCEPT ![t] = "done"]
            /\ wret' = [wret EXCEPT ![t] = TRUE]
       ELSE /\ wpc' = [wpc EXCEPT ![t] = "lock"]
            /\ UNCHANGED wret
    /\ UNCHANGED <<shutdown, mutex, condq, wexpired, tpc, w_inside, w_after>>
    /\ UNCHANGED notSig

\* wait, line 44: mutex.lock().
WaitLock(t) ==
    /\ wpc[t] = "lock"
    /\ mutex = {}
    /\ mutex' = {t}
    /\ wpc' = [wpc EXCEPT ![t] = "pred"]
    /\ UNCHANGED <<shutdown, condq, wexpired, wret, tpc, w_inside, w_after>>
    /\ UNCHANGED notSig

\* wait, line 47: wait_timeout_while evaluates the condition !is_shutdown();
\* a false condition ends the wait with timed_out() = false.
WaitPred(t) ==
    /\ wpc[t] = "pred"
    /\ IF shutdown
       THEN /\ wpc' = [wpc EXCEPT ![t] = "done"]
            /\ wret' = [wret EXCEPT ![t] = WaitResult(FALSE)]
            /\ mutex' = {}
       ELSE /\ wpc' = [wpc EXCEPT ![t] = "park"]
            /\ UNCHANGED <<wret, mutex>>
    /\ UNCHANGED <<shutdown, condq, wexpired, tpc, w_inside, w_after>>
    /\ UNCHANGED notSig

\* wait, line 47: with the condition true, wait_timeout_while ends with
\* timed_out() = true when no time is left, else parks the thread on the
\* condition variable, releasing the mutex.
WaitPark(t) ==
    /\ wpc[t] = "park"
    /\ IF wexpired[t]
       THEN /\ wpc' = [wpc EXCEPT ![t] = "done"]
            /\ wret' = [wret EXCEPT ![t] = WaitResult(TRUE)]
            /\ mutex' = {}
            /\ UNCHANGED condq
       ELSE /\ wpc' = [wpc EXCEPT ![t] = "sleeping"]
            /\ condq' = condq \cup {t}
            /\ mutex' = {}
            /\ UNCHANGED wret
    /\ UNCHANGED <<shutdown, wexpired, tpc, w_inside, w_after>>
    /\ UNCHANGED notSig

\* A parked thread leaves the condition variable: it was notified, or its
\* remaining time ran out.
WaitWake(t) ==
    /\ wpc[t] = "sleeping"
    /\ t \notin condq \/ wexpired[t]
    /\ condq' = condq \ {t}
    /\ wpc' = [wpc EXCEPT ![t] = "relock"]
    /\ UNCHANGED <<shutdown, mutex, wexpired, wret, tpc, w_inside, w_after>>
    /\ UNCHANGED notSig

\* A parked thread wakes spuriously, as Condvar allows.
WaitSpurious(t) ==
    /\ wpc[t] = "sleeping"
    /\ t \in condq
    /\ ~wexpired[t]
    /\ condq' = condq \ {t}
    /\ wpc' = [wpc EXCEPT ![t] = "relock"]
    /\ UNCHANGED <<shutdown, mutex, wexpired, wret, tpc, w_inside, w_after>>
    /\ UNCHANGED notSig

\* A woken thread takes the mutex again before the condition is re-evaluated.
WaitRelock(t) ==
    /\ wpc[t] = "relock"
    /\ mutex = {}
    /\ mutex' = {t}
    /\ wpc' = [wpc EXCEPT ![t] = "pred"]
    /\ UNCHANGED <<shutdown, condq, wexpired, wret, tpc, w_inside, w_after>>
    /\ UNCHANGED notSig

\* Time passes: the duration given to wait_timeout_while has elapsed.
TimerExpire(t) ==
    /\ wpc[t] \in {"pred", "park", "sleeping", "relock"}
    /\ ~wexpired[t]
    /\ wexpired' = [wexpired EXCEPT ![t] = TRUE]
    /\ UNCHANGED <<shutdown, mutex, condq, wpc, wret, tpc, w_inside, w_after>>
    /\ UNCHANGED notSig

\* trigger, line 27: shutdown.store(true).
TriggerStore(k) ==
    /\ tpc[k] = "idle"
    /\ shutdown' = TRUE
    /\ tpc' = [tpc EXCEPT ![k] = "notify"]
    /\ w_inside' = [t \in SigThreads |->
                      IF wpc[t] \in InsideWait THEN w_inside[t] \cup {k} ELSE w_inside[t]]
    /\ UNCHANGED <<mutex, condq, wpc, wexpired, wret, w_after>>
    /\ UNCHANGED notSig

\* trigger, line 28: condvar.notify_all().
TriggerNotify(k) ==
    /\ tpc[k] = "notify"
    /\ condq' = {}
    /\ tpc' = [tpc EXCEPT ![k] = "done"]
    /\ UNCHANGED <<shutdown, mutex, wpc, wexpired, wret, w_inside, w_after>>
    /\ UNCHANGED notSig

WaitStep(t) ==
    \/ WaitCheck(t)
    \/ WaitLock(t)
    \/ WaitPred(t)
    \/ WaitPark(t)
    \/ WaitWake(t)
    \/ WaitSpurious(t)
    \/ WaitRelock(t)

TriggerStep ==
    \E k \in Triggerers : TriggerStore(k) \/ TriggerNotify(k)

SigNext ==
    \/ \E t \in Waiters : WaitCall(t) \/ WaitStep(t) \/ TimerExpire(t)
    \/ TriggerStep

\* C5: every thread that is inside wait when trigger is called is woken by
\* that trigger: once the trigger call has returned the thread is not left
\* parked on the condition variable, and it returns true without waiting for
\* its duration to elapse.
C5_TriggerWakesAllWaiters ==
    \A t \in Waiters : \A k \in w_inside[t] :
        tpc[k] = "done" =>
            /\ ~(wpc[t] = "sleeping" /\ t \in condq)
            /\ ((wpc[t] = "done" /\ ~wexpired[t]) => wret[t])

\* C6: wait returns true without blocking when a trigger call returned before
\* wait was called; it returns false, after the duration, when trigger is
\* never called; and it never returns true unless trigger has been called.
C6_WaitResult ==
    \A t \in Waiters :
        /\ w_after[t] => (wpc[t] \in {"check", "done"} /\ mutex # {t} /\ t \notin condq)
        /\ (wpc[t] = "done" /\ w_after[t]) => wret[t]
        /\ (wpc[t] = "done" /\ \A k \in Triggerers : tpc[k] = "idle")
              => (~wret[t] /\ wexpired[t])
        /\ (wpc[t] = "done" /\ wret[t]) => (shutdown /\ \E k \in Triggerers : tpc[k] # "idle")

\* C6 witness: one wait timed out and returned false before any trigger, and
\* another wait, called after trigger had returned, returned true.
C6_Witness ==
    \E t \in Waiters, u \in Waiters :
        /\ wpc[t] = "done" /\ ~wret[t] /\ wexpired[t] /\ ~w_after[t] /\ w_inside[t] = {}
        /\ wpc[u] = "done" /\ wret[u] /\ w_after[u]

\* The fields of the ShutdownSignal: the flag, the mutex (its holder) and the
\* condition variable (the threads parked on it).
SignalState == <<shutdown, mutex, condq>>

\* No step clears the flag.
FlagStaysSet == shutdown => shutdown'

\* A wait that finds the flag set at its first test returns true in that step.
LaterWaitReturnsTrue ==
    \A t \in SigThreads :
        (wpc[t] = "check" /\ shutdown /\ wpc'[t] # wpc[t])
            => (wpc'[t] = "done" /\ wret'[t])

\* A step of a trigger call made after another trigger call has returned
\* leaves the fields of the signal as they are.
FurtherTriggerChangesNothing ==
    \A k \in Triggerers :
        (tpc'[k] # tpc[k] /\ \E j \in Triggerers \ {k} : tpc[j] = "done")
            => SignalState' = SignalState

\* C30: the shutdown flag is monotone and trigger is idempotent: once set, the
\* flag is never cleared, so is_shutdown() returns true forever after; every
\* wait called later returns true; and a further trigger call leaves the
\* signal in the state the first call left it in.
C30_FlagMonotoneTriggerIdempotent ==
    [][FlagStaysSet /\ LaterWaitReturnsTrue /\ FurtherTriggerChangesNothing]_vars

(***************************************************************************)
(* The tracking command (commands/tracking.rs, run) and the retry loops    *)
(* (retry.rs), run by LoopThread.                                          *)
(***************************************************************************)

\* config::database::MAX_LOAD_ATTEMPTS (its value is not part of the sources
\* at hand; a small stand-in).
MAX_LOAD_ATTEMPTS == 2

\* Positions at which the tracking thread is inside ShutdownSignal::wait.
WaitSites == {"so_wait", "db_extra_wait", "db_wait", "run_wait"}

\* Positions inside search_offsets_with_retry.
InOffsetSearch == {"so_head", "so_search", "so_wait"}

\* Positions inside load_song_database_with_retry.
InDbLoad == {"db_head", "db_extra_wait", "db_fetch", "db_wait"}

\* A retry loop that goes on after an interrupted wait.
RetryAfterWait_ignores(interrupted, next) == next

\* retry.rs lines 44-46, 94-96, 146-148: where a retry loop goes after wait.
RetryAfterWait(interrupted, next) == IF interrupted THEN "return_none" ELSE next

\* A retry loop that does not look at the signal at the head of an iteration.
RetryAtHead_ignores(is_shutdown, next) == next

\* retry.rs lines 30-32, 112-114: the test at the head of an iteration.
RetryAtHead(is_shutdown, next) == IF is_shutdown THEN "return_none" ELSE next

\* Option<T>: None, or Some(v).
None == {}

Some(v) == {v}

\* The value inside Some(v).
TheOnly(opt) == CHOOSE v \in opt : TRUE

\* validation.rs: the constants of validate_song_database.
MIN_EXPECTED_SONGS == 1000

READY_SONG_ID == 80003

READY_DIFF_INDEX == 3

READY_MIN_NOTES == 10

\* SongInfo::total_notes, one count per difficulty (chart/song.rs).
NOTE_SLOTS == 10

\* slice::get(i) with a default: the element at index i (from 0), or the
\* default when the index is past the end.
GetOr(arr, i, default) == IF i < Len(arr) THEN arr[i + 1] ELSE default

\* validate_song_database without the test of the reference song's notes.
validate_song_database_any_notes(db) ==
    IF db.len < MIN_EXPECTED_SONGS THEN "TooFewSongs"
    ELSE IF READY_SONG_ID \in DOMAIN db.songs THEN "Valid"
    ELSE "ReferenceSongMissing"

\* validation.rs lines 26-41.  A database is its number of entries and the
\* total_notes of the entries the function looks at.
validate_song_database(db) ==
    IF db.len < MIN_EXPECTED_SONGS THEN "TooFewSongs"
    ELSE IF READY_SONG_ID \in DOMAIN db.songs
    THEN IF GetOr(db.songs[READY_SONG_ID], READY_DIFF_INDEX, 0) < READY_MIN_NOTES
         THEN "NotecountTooSmall"
         ELSE "Valid"
    ELSE "ReferenceSongMissing"

\* total_notes of a song whose SPA chart has the given number of notes.
NotesWithSpa(n) == [i \in 1..NOTE_SLOTS |-> IF i = READY_DIFF_INDEX + 1 THEN n ELSE 500]

\* The databases a fetch gives: too small or large enough, without or with
\* the reference song, whose SPA note count is below, at or above the minimum.
SongDatabases ==
    { [len |-> n, songs |-> sg] :
        n \in {MIN_EXPECTED_SONGS - 1, MIN_EXPECTED_SONGS},
        sg \in {<<>>} \cup
               { [id \in {READY_SONG_ID} |-> NotesWithSpa(k)] :
                   k \in {0, READY_MIN_NOTES - 1, READY_MIN_NOTES, 1200} } }

AttInit ==
    /\ rpc = "run_head"
    /\ db_attempts = 0
    /\ so_result = "pending"
    /\ db_result = "pending"
    /\ db_fetches = 0
    /\ db_value = None
    /\ cancel_at = "nowhere"

\* run, line 62: while !shutdown.is_shutdown().
RunHead ==
    /\ rpc = "run_head"
    /\ rpc' = IF shutdown THEN "exit" ELSE "find"
    /\ UNCHANGED <<db_attempts, so_result, db_result, cancel_at>>
    /\ UNCHANGED <<sigVars, notSigAtt>>
    /\ UNCHANGED <<db_fetches, db_value>>

\* run, lines 63-118 and 282-284: find_and_open fails, or the process is found
\* and the offsets at hand need a search or do not.
RunFind ==
    /\ rpc = "find"
    /\ \E found \in BOOLEAN, needs_search \in BOOLEAN :
         rpc' = IF ~found THEN "run_wait"
                ELSE IF needs_search THEN "so_call" ELSE "load_db"
    /\ UNCHANGED <<db_attempts, so_result, db_result, cancel_at>>
    /\ UNCHANGED <<sigVars, notSigAtt>>
    /\ UNCHANGED <<db_fetches, db_value>>

\* run, lines 120-122: search_offsets_with_retry is called.
SearchOffsetsCall ==
    /\ rpc = "so_call"
    /\ rpc' = "so_head"
    /\ so_result' = "pending"
    /\ cancel_at' = "nowhere"
    /\ UNCHANGED <<db_attempts, db_result>>
    /\ UNCHANGED <<sigVars, notSigAtt>>
    /\ UNCHANGED <<db_fetches, db_value>>

\* search_offsets_with_retry, lines 110-114; on Ok(None) run breaks (123-126).
SearchOffsetsHead ==
    /\ rpc = "so_head"
    /\ LET to == RetryAtHead(shutdown, "so_search") IN
         IF to = "return_none"
         THEN /\ rpc' = "exit"
              /\ so_result' = "none"
              /\ cancel_at' = "so_head"
         ELSE /\ rpc' = to
              /\ UNCHANGED <<so_result, cancel_at>>
    /\ UNCHANGED <<db_attempts, db_result>>
    /\ UNCHANGED <<sigVars, notSigAtt>>
    /\ UNCHANGED <<db_fetches, db_value>>

\* search_offsets_with_retry, lines 116-143: one search_all_with_signatures
\* attempt; a valid collection is returned (run, lines 128-129), anything
\* else leads to the wait before the next attempt.
SearchOffsetsAttempt ==
    /\ rpc = "so_search"
    /\ \E found \in BOOLEAN :
         IF found
         THEN /\ rpc' = "load_db"
              /\ so_result' = "some"
         ELSE /\ rpc' = "so_wait"
              /\ UNCHANGED so_result
    /\ UNCHANGED <<db_attempts, db_result, cancel_at>>
    /\ UNCHANGED <<sigVars, notSigAtt>>
    /\ UNCHANGED <<db_fetches, db_value>>

\* The tracking thread enters wait at one of its wait sites.
LoopWaitCall ==
    /\ rpc \in WaitSites
    /\ WaitCall(LoopThread)

\* search_offsets_with_retry, lines 145-148.
SearchOffsetsAfterWait ==
    /\ rpc = "so_wait"
    /\ wpc[LoopThread] = "done"
    /\ wpc' = [wpc EXCEPT ![LoopThread] = "idle"]
    /\ LET to == RetryAfterWait(wret[LoopThread], "so_head") IN
         IF to = "return_none"
         THEN /\ rpc' = "exit"
              /\ so_result' = "none"
              /\ cancel_at' = "so_wait"
         ELSE /\ rpc' = to
              /\ UNCHANGED <<so_result, cancel_at>>
    /\ UNCHANGED <<db_attempts, db_result>>
    /\ UNCHANGED <<shutdown, mutex, condq, wexpired, wret, tpc, w_inside, w_after>>
    /\ UNCHANGED notSigAtt
    /\ UNCHANGED <<db_fetches, db_value>>

\* run, lines 148-204: the song database comes from the TSV or the memory
\* scan, or, when that is empty, from load_song_database_with_retry.
LoadDb ==
    /\ rpc = "load_db"
    /\ \E legacy \in BOOLEAN :
         IF legacy
         THEN /\ rpc' = "db_head"
              /\ db_attempts' = 0
              /\ db_result' = "pending"
              /\ db_fetches' = 0
              /\ db_value' = None
              /\ cancel_at' = "nowhere"
         ELSE /\ rpc' = "track"
              /\ UNCHANGED <<db_attempts, db_result, db_fetches, db_value, cancel_at>>
    /\ UNCHANGED so_result
    /\ UNCHANGED <<sigVars, notSigAtt>>

\* load_song_database_with_retry, lines 28-46: the head of an iteration up to
\* the extra wait; Ok(None) makes run break, the error leaves run through ?.
LoadDbHead ==
    /\ rpc = "db_head"
    /\ LET to == RetryAtHead(shutdown, "go_on") IN
         IF to = "return_none"
         THEN /\ rpc' = "exit"
              /\ db_result' = "none"
              /\ cancel_at' = "db_head"
              /\ UNCHANGED db_attempts
         ELSE IF db_attempts >= MAX_LOAD_ATTEMPTS
         THEN /\ rpc' = "exit"
              /\ db_result' = "err"
              /\ UNCHANGED <<db_attempts, cancel_at>>
         ELSE /\ db_attempts' = db_attempts + 1
              /\ rpc' = IF db_attempts + 1 > 1 THEN "db_extra_wait" ELSE "db_fetch"
              /\ UNCHANGED <<db_result, cancel_at>>
    /\ UNCHANGED so_result
    /\ UNCHANGED <<sigVars, notSigAtt>>
    /\ UNCHANGED <<db_fetches, db_value>>

\* load_song_database_with_retry, lines 44-46: after wait(EXTRA_DELAY).
LoadDbAfterExtraWait ==
    /\ rpc = "db_extra_wait"
    /\ wpc[LoopThread] = "done"
    /\ wpc' = [wpc EXCEPT ![LoopThread] = "idle"]
    /\ LET to == RetryAfterWait(wret[LoopThread], "db_fetch") IN
         IF to = "return_none"
         THEN /\ rpc' = "exit"
              /\ db_result' = "none"
              /\ cancel_at' = "db_extra_wait"
         ELSE /\ rpc' = to
              /\ UNCHANGED <<db_result, cancel_at>>
    /\ UNCHANGED <<db_attempts, so_result>>
    /\ UNCHANGED <<shutdown, mutex, condq, wexpired, wret, tpc, w_inside, w_after>>
    /\ UNCHANGED notSigAtt
    /\ UNCHANGED <<db_fetches, db_value>>

\* load_song_database_with_retry, lines 48-91: one fetch and its validation;
\* the fetch fails (None) or gives a database.
LoadDbFetch ==
    /\ rpc = "db_fetch"
    /\ db_fetches' = db_fetches + 1
    /\ \E fetched \in {None} \cup {Some(db) : db \in SongDatabases} :
         IF fetched # None /\ validate_song_database(TheOnly(fetched)) = "Valid"
         THEN /\ rpc' = "track"
              /\ db_result' = "some"
              /\ db_value' = fetched
         ELSE /\ rpc' = "db_wait"
              /\ UNCHANGED <<db_result, db_value>>
    /\ UNCHANGED <<db_attempts, so_result, cancel_at>>
    /\ UNCHANGED <<sigVars, notSigAtt>>

\* load_song_database_with_retry, lines 93-96: after wait(RETRY_DELAY).
LoadDbAfterWait ==
    /\ rpc = "db_wait"
    /\ wpc[LoopThread] = "done"
    /\ wpc' = [wpc EXCEPT ![LoopThread] = "idle"]
    /\ LET to == RetryAfterWait(wret[LoopThread], "db_head") IN
         IF to = "return_none"
         THEN /\ rpc' = "exit"
              /\ db_result' = "none"
              /\ cancel_at' = "db_wait"
         ELSE /\ rpc' = to
              /\ UNCHANGED <<db_result, cancel_at>>
    /\ UNCHANGED <<db_attempts, so_result>>
    /\ UNCHANGED <<shutdown, mutex, condq, wexpired, wret, tpc, w_inside, w_after>>
    /\ UNCHANGED notSigAtt
    /\ UNCHANGED <<db_fetches, db_value>>

\* run, lines 206-280: the tracker runs until the process is gone.
Track ==
    /\ rpc = "track"
    /\ rpc' = "run_wait"
    /\ UNCHANGED <<db_attempts, so_result, db_result, cancel_at>>
    /\ UNCHANGED <<sigVars, notSigAtt>>
    /\ UNCHANGED <<db_fetches, db_value>>

\* run, lines 287-290: after wait(5 s), break or the next round.
RunAfterWait ==
    /\ rpc = "run_wait"
    /\ wpc[LoopThread] = "done"
    /\ wpc' = [wpc EXCEPT ![LoopThread] = "idle"]
    /\ rpc' = IF wret[LoopThread] THEN "exit" ELSE "run_head"
    /\ UNCHANGED <<db_attempts, so_result, db_result, cancel_at>>
    /\ UNCHANGED <<shutdown, mutex, condq, wexpired, wret, tpc, w_inside, w_after>>
    /\ UNCHANGED notSigAtt
    /\ UNCHANGED <<db_fetches, db_value>>

\* The steps of the tracking thread.
LoopStep ==
    \/ RunHead
    \/ RunFind
    \/ SearchOffsetsCall
    \/ SearchOffsetsHead
    \/ SearchOffsetsAttempt
    \/ SearchOffsetsAfterWait
    \/ LoadDb
    \/ LoadDbHead
    \/ LoadDbAfterExtraWait
    \/ LoadDbFetch
    \/ LoadDbAfterWait
    \/ Track
    \/ RunAfterWait
    \/ LoopWaitCall
    \/ WaitStep(LoopThread)

AttNext ==
    \/ LoopStep
    \/ TimerExpire(LoopThread)
    \/ TriggerStep

\* The tracking thread observes the shutdown signal at the head of a retry
\* loop iteration, or gets true from one of the loops' waits, and moves on.
CancellationObserved ==
    /\ rpc' # rpc
    /\ \/ rpc \in {"so_head", "db_head"} /\ shutdown
       \/ /\ rpc \in {"so_wait", "db_extra_wait", "db_wait"}
          /\ wpc[LoopThread] = "done"
          /\ wret[LoopThread]

\* C7: when a retry loop observes the shutdown signal at the head of an
\* iteration, or one of its waits returns true, it returns Ok(None) in that
\* step: no further search or fetch attempt is started and no offsets or
\* database are returned (run breaks out of its loop).
C7_RetryLoopsHonourCancellation ==
    [][CancellationObserved =>
         /\ rpc' = "exit"
         /\ (rpc \in InOffsetSearch => so_result' = "none")
         /\ (rpc \in InDbLoad => db_result' = "none")
         /\ db_attempts' = db_attempts]_vars

\* C7 witness: offsets were found, and the song database loop, after a failed
\* fetch, got true from wait(RETRY_DELAY) and returned Ok(None).
C7_Witness ==
    /\ rpc = "exit"
    /\ so_result = "some"
    /\ db_result = "none"
    /\ cancel_at = "db_wait"

\* C8: the offset search is retried a bounded number of times only: whenever
\* search_offsets_with_retry is entered it is eventually left (with offsets,
\* on shutdown, or, as claimed, by giving up after repeated failures).
C8_OffsetSearchGivesUp ==
    (rpc \in InOffsetSearch) ~> (rpc \notin InOffsetSearch)

\* What the claim calls a valid database, spelled out: at least
\* MIN_EXPECTED_SONGS entries, among them the reference song, whose SPA chart
\* has at least READY_MIN_NOTES notes.
FullyPopulated(db) ==
    /\ db.len >= MIN_EXPECTED_SONGS
    /\ READY_SONG_ID \in DOMAIN db.songs
    /\ db.songs[READY_SONG_ID][READY_DIFF_INDEX + 1] >= READY_MIN_NOTES

\* C27: load_song_database_with_retry terminates on every path: once entered
\* it is eventually left; it never makes more than MAX_LOAD_ATTEMPTS fetches;
\* it returns Ok(None) only when the shutdown was triggered, the error only
\* after exactly MAX_LOAD_ATTEMPTS fetches none of which validated, and
\* Some(db) only for a db that validate_song_database finds Valid.
C27_LoadDbTerminates ==
    /\ (rpc \in InDbLoad) ~> (rpc \notin InDbLoad)
    /\ [](db_fetches <= MAX_LOAD_ATTEMPTS /\ db_fetches <= db_attempts)
    /\ [](db_result = "none" => shutdown)
    /\ [](db_result = "err" =>
            /\ db_fetches = MAX_LOAD_ATTEMPTS
            /\ db_value = None
            /\ rpc \notin InDbLoad)
    /\ [](db_result = "some" =>
            /\ db_value # None
            /\ validate_song_database(TheOnly(db_value)) = "Valid"
            /\ FullyPopulated(TheOnly(db_value)))

\* C27 witness: without any shutdown, every fetch failed to validate and the
\* call returned the error after MAX_LOAD_ATTEMPTS fetches.
C27_Witness ==
    /\ db_result = "err"
    /\ db_fetches = MAX_LOAD_ATTEMPTS
    /\ ~shutdown
    /\ rpc = "exit"

(***************************************************************************)
(* Offsets: the relative-distance gate (offset/searcher/mod.rs,            *)
(* offset/searcher/constants.rs)                                           *)
(*                                                                         *)
(* Addresses and distances are u64.  A u64 is written here by its two's    *)
(* complement reading (v for v < 2^63, v - 2^64 above), so that            *)
(* wrapping_sub and wrapping_add are the plain - and + on the values the   *)
(* model uses, and the unsigned order is ULe.                              *)
(***************************************************************************)

JUDGE_TO_PLAY_SETTINGS == 2805248

PLAY_SETTINGS_SEARCH_RANGE == 8192

JUDGE_TO_SONG_LIST == 9756672

PLAY_SETTINGS_TO_PLAY_DATA == 688

PLAY_DATA_SEARCH_RANGE == 256

JUDGE_TO_CURRENT_SONG == 484

CURRENT_SONG_SEARCH_RANGE == 256

\* Not among the constants of offset/searcher/constants.rs at hand; the value
\* is the documented +-64 KiB window of the judge data search.
JUDGE_DATA_SEARCH_RANGE == 65536

\* u64::wrapping_sub and u64::wrapping_add
WrappingSub(a, b) == a - b

WrappingAdd(a, b) == a + b

\* a <= b and a >= b on u64
ULe(a, b) == IF (a < 0) = (b < 0) THEN a <= b ELSE b < 0

UGe(a, b) == ULe(b, a)

\* The closure within_range of validate_signature_offsets.
within_range(actual, expected, range) ==
    IF UGe(actual, expected)
    THEN ULe(actual - expected, range)
    ELSE ULe(expected - actual, range)

\* A gate that checks the play data distance against the play settings range.
RelativeDistanceFailure_wrong_range(o) ==
    IF ~within_range(WrappingSub(o.judge_data, o.play_settings),
                     JUDGE_TO_PLAY_SETTINGS, PLAY_SETTINGS_SEARCH_RANGE)
    THEN "judge_to_play"
    ELSE IF ~within_range(WrappingSub(o.song_list, o.judge_data),
                          JUDGE_TO_SONG_LIST, JUDGE_DATA_SEARCH_RANGE)
    THEN "song_to_judge"
    ELSE IF ~within_range(WrappingSub(o.play_data, o.play_settings),
                          PLAY_SETTINGS_TO_PLAY_DATA, PLAY_SETTINGS_SEARCH_RANGE)
    THEN "play_data_delta"
    ELSE IF ~within_range(WrappingSub(o.current_song, o.judge_data),
                          JUDGE_TO_CURRENT_SONG, CURRENT_SONG_SEARCH_RANGE)
    THEN "current_song_delta"
    ELSE "none"

\* The four relative-distance checks at the end of validate_signature_offsets,
\* in their order: the first one that fails, or "none".
RelativeDistanceFailure(o) ==
    IF ~within_range(WrappingSub(o.judge_data, o.play_settings),
                     JUDGE_TO_PLAY_SETTINGS, PLAY_SETTINGS_SEARCH_RANGE)
    THEN "judge_to_play"
    ELSE IF ~within_range(WrappingSub(o.song_list, o.judge_data),
                          JUDGE_TO_SONG_LIST, JUDGE_DATA_SEARCH_RANGE)
    THEN "song_to_judge"
    ELSE IF ~within_range(WrappingSub(o.play_data, o.play_settings),
                          PLAY_SETTINGS_TO_PLAY_DATA, PLAY_DATA_SEARCH_RANGE)
    THEN "play_data_delta"
    ELSE IF ~within_range(WrappingSub(o.current_song, o.judge_data),
                          JUDGE_TO_CURRENT_SONG, CURRENT_SONG_SEARCH_RANGE)
    THEN "current_song_delta"
    ELSE "none"

DistanceChecks ==
    {"judge_to_play", "song_to_judge", "play_data_delta", "current_song_delta"}

Structures ==
    {"song_list", "judge_data", "play_settings", "play_data", "current_song",
     "data_map", "unlock_data"}

\* validate_signature_offsets(offsets) against a process memory m, where
\* m[s] says whether the validator of structure s accepts offsets[s]: the
\* check that makes it return false, or "passed" when it returns true.
validate_signature_offsets(o, m) ==
    IF o.song_list = 0 THEN "song_list_zero"
    ELSE IF o.judge_data = 0 THEN "judge_data_zero"
    ELSE IF o.play_settings = 0 THEN "play_settings_zero"
    ELSE IF o.play_data = 0 THEN "play_data_zero"
    ELSE IF o.current_song = 0 THEN "current_song_zero"
    ELSE IF ~m["song_list"] THEN "song_list"
    ELSE IF ~m["judge_data"] THEN "judge_data"
    ELSE IF ~m["play_settings"] THEN "play_settings"
    ELSE IF ~m["play_data"] THEN "play_data"
    ELSE IF ~m["current_song"] THEN "current_song"
    ELSE IF o.data_map # 0 /\ ~m["data_map"] THEN "data_map"
    ELSE IF o.unlock_data # 0 /\ ~m["unlock_data"] THEN "unlock_data"
    ELSE IF RelativeDistanceFailure(o) # "none" THEN RelativeDistanceFailure(o)
    ELSE "passed"

\* The addresses of the worked example, and its other play data address,
\* 0x600 above the play settings.
S5 ==
    [song_list     |-> 279240704,
     judge_data    |-> 268435456,
     play_settings |-> 265630208,
     play_data     |-> 265630896,
     current_song  |-> 268435940]

S5FarPlayData == S5.play_settings + 1536

\* Addresses a search may come up with for each structure, given the
\* addresses it is anchored to: the expected one, one a little off, one
\* outside the window of the gate.
SongListAddrs == {S5.song_list, WrappingAdd(S5.judge_data, JUDGE_TO_SONG_LIST)}

JudgeAddrs(song_list) ==
    LET e == WrappingSub(song_list, JUDGE_TO_SONG_LIST)
    IN  {e, e + 8, e - 2 * JUDGE_DATA_SEARCH_RANGE}

PlaySettingsAddrs(judge_data) ==
    LET e == WrappingSub(judge_data, JUDGE_TO_PLAY_SETTINGS)
    IN  {e, e - 8, e - 2 * PLAY_SETTINGS_SEARCH_RANGE}

PlayDataAddrs(play_settings) ==
    LET e == WrappingAdd(play_settings, PLAY_SETTINGS_TO_PLAY_DATA)
    IN  {e, e + 8, play_settings + (S5FarPlayData - S5.play_settings)}

CurrentSongAddrs(judge_data) ==
    LET e == WrappingAdd(judge_data, JUDGE_TO_CURRENT_SONG)
    IN  {e, e - 8, e + 2 * CURRENT_SONG_SEARCH_RANGE}

DataMapAddrs == {S5.song_list + 2 * JUDGE_TO_SONG_LIST}

UnlockDataAddrs == {S5.song_list + 3 * JUDGE_TO_SONG_LIST}

\* OffsetsCollection::default()
OffsetsDefault ==
    [version |-> "", song_list |-> 0, judge_data |-> 0, play_settings |-> 0,
     play_data |-> 0, current_song |-> 0, data_map |-> 0, unlock_data |-> 0]

\* The five addresses the worked example is about.
Core(o) ==
    [song_list |-> o.song_list, judge_data |-> o.judge_data,
     play_settings |-> o.play_settings, play_data |-> o.play_data,
     current_song |-> o.current_song]

\* The collections handed to the gate: every structure at one of its
\* addresses or missing.
GateInputs ==
    {[version |-> "unknown", song_list |-> l, judge_data |-> j,
      play_settings |-> s, play_data |-> p, current_song |-> c,
      data_map |-> d, unlock_data |-> u] :
        l \in SongListAddrs \cup {0},
        j \in JudgeAddrs(WrappingAdd(S5.judge_data, JUDGE_TO_SONG_LIST)) \cup {0},
        s \in PlaySettingsAddrs(S5.judge_data) \cup {0},
        p \in PlayDataAddrs(S5.play_settings) \cup {0},
        c \in CurrentSongAddrs(S5.judge_data) \cup {0},
        d \in DataMapAddrs \cup {0}, u \in UnlockDataAddrs \cup {0}}

\* No collection is being validated.
GateInit ==
    /\ g_pc = "idle"
    /\ g_offsets = OffsetsDefault
    /\ g_mem = [s \in Structures |-> FALSE]
    /\ g_result = "none"

\* A collection and a memory are about to be validated.
GateInputInit ==
    /\ g_pc = "input"
    /\ g_offsets \in GateInputs
    /\ g_mem \in [Structures -> BOOLEAN]
    /\ g_result = "none"

\* One call of validate_signature_offsets.
ValidateSignatureOffsets ==
    /\ g_pc = "input"
    /\ g_pc' = "validated"
    /\ g_result' = validate_signature_offsets(g_offsets, g_mem)
    /\ UNCHANGED <<g_offsets, g_mem>>
    /\ UNCHANGED notGate

GateNext == ValidateSignatureOffsets

AllValidatorsAccept == \A s \in Structures : g_mem[s]

\* C10: with judge_data 0x10000000, play_settings 0x0FD53200, song_list
\* 0x10A4E000, play_data 0x0FD534B0 and current_song 0x100001E4 every
\* distance is the expected one and the four distance checks of the gate
\* pass (the collection is accepted whenever the memory validators accept
\* it); with play_data 0x0FD53800 instead the gate fails.
C10_WorkedExampleGate ==
    g_pc = "validated" =>
        /\ Core(g_offsets) = S5 =>
              /\ WrappingSub(g_offsets.judge_data, g_offsets.play_settings)
                     = JUDGE_TO_PLAY_SETTINGS
              /\ WrappingSub(g_offsets.song_list, g_offsets.judge_data)
                     = JUDGE_TO_SONG_LIST
              /\ WrappingSub(g_offsets.play_data, g_offsets.play_settings)
                     = PLAY_SETTINGS_TO_PLAY_DATA
              /\ WrappingSub(g_offsets.current_song, g_offsets.judge_data)
                     = JUDGE_TO_CURRENT_SONG
              /\ g_result \notin DistanceChecks
              /\ (AllValidatorsAccept => g_result = "passed")
        /\ Core(g_offsets) = [S5 EXCEPT !.play_data = S5FarPlayData] =>
              g_result # "passed"

\* The worked example with song_list 0x1094E000, which is judge_data plus
\* the expected distance.
S5Consistent ==
    [S5 EXCEPT !.song_list = WrappingAdd(S5.judge_data, JUDGE_TO_SONG_LIST)]

\* C10 as amended: with the addresses of the claim three distances are the
\* expected ones but song_list - judge_data is 0xA4E000, 0x100000 more than
\* the expected 0x94E000, and the gate fails on that distance; with
\* song_list 0x1094E000 every distance is the expected one and the four
\* checks pass; with play_data 0x0FD53800 the gate fails in both cases, in
\* the second one on the play data distance.
C10_WorkedExampleGateAmended ==
    g_pc = "validated" =>
        /\ Core(g_offsets) \in {S5, S5Consistent} =>
              /\ WrappingSub(g_offsets.judge_data, g_offsets.play_settings)
                     = JUDGE_TO_PLAY_SETTINGS
              /\ WrappingSub(g_offsets.play_data, g_offsets.play_settings)
                     = PLAY_SETTINGS_TO_PLAY_DATA
              /\ WrappingSub(g_offsets.current_song, g_offsets.judge_data)
                     = JUDGE_TO_CURRENT_SONG
        /\ Core(g_offsets) = S5 =>
              /\ WrappingSub(g_offsets.song_list, g_offsets.judge_data)
                     = JUDGE_TO_SONG_LIST + 1048576
              /\ g_result # "passed"
              /\ (AllValidatorsAccept => g_result = "song_to_judge")
        /\ Core(g_offsets) = S5Consistent =>
              /\ WrappingSub(g_offsets.song_list, g_offsets.judge_data)
                     = JUDGE_TO_SONG_LIST
              /\ g_result \notin DistanceChecks
              /\ (AllValidatorsAccept => g_result = "passed")
        /\ Core(g_offsets) = [S5 EXCEPT !.play_data = S5FarPlayData] =>
              g_result # "passed"
        /\ Core(g_offsets) = [S5Consistent EXCEPT !.play_data = S5FarPlayData] =>
              /\ g_result # "passed"
              /\ (AllValidatorsAccept => g_result = "play_data_delta")

\* C10 witness: the gate has rejected the collection of the claim for its
\* song list distance, every memory validator accepting it.
C10_Witness ==
    /\ g_pc = "validated"
    /\ Core(g_offsets) = S5
    /\ AllValidatorsAccept
    /\ g_result = "song_to_judge"

(***************************************************************************)
(* Offsets: OffsetSearcher::search_all_with_signatures                     *)
(* (offset/searcher/mod.rs, offset/collection.rs)                          *)
(*                                                                         *)
(* What the process memory holds is chosen when a phase reads it: for the  *)
(* structure of the phase, sigs is the list of its signatures, each given  *)
(* by what resolve_signature_targets returns for it (an error, or the set  *)
(* of its targets), and valid is the set of addresses the validator of the *)
(* structure accepts.                                                      *)
(***************************************************************************)

\* The most signatures an entry of the signature set lists.
MaxSigs == 2

\* signatures.version: empty, blank, or a version tag
SigVersions == {"", "  ", "2026012800"}

IsBlank(v) == v \in {"", "  "}

\* What resolve_signature_targets may return for a signature resolving
\* into addrs: Err (the pattern does not parse, the code cannot be read) or
\* Ok with targets.
ResolveResults(addrs) ==
    {[ok |-> TRUE, targets |-> S] : S \in SUBSET addrs}
        \cup {[ok |-> FALSE, targets |-> {}]}

\* The lists of at most MaxSigs signatures resolving into addrs.
SigLists(addrs) ==
    UNION {[1..n -> ResolveResults(addrs)] : n \in 0..MaxSigs}

Min(S) == CHOOSE a \in S : \A b \in S : a <= b

\* A filter that forgets the alignment.
ValidTargets_unaligned(res, valid) == {a \in res.targets : a \in valid}

\* The targets of one signature that are multiples of 4 and validated.
ValidTargets(res, valid) == {a \in res.targets : a % 4 = 0 /\ a \in valid}

\* The loop of search_offset_by_signature from signature i on; at is the
\* signature it returned at.
RECURSIVE SignatureLoop(_, _, _)
SignatureLoop(sigs, valid, i) ==
    IF i > Len(sigs)
    THEN [ok |-> FALSE, addr |-> 0, at |-> i]
    ELSE IF ~sigs[i].ok
    THEN [ok |-> FALSE, addr |-> 0, at |-> i]
    ELSE IF ValidTargets(sigs[i], valid) # {}
    THEN [ok |-> TRUE, addr |-> Min(ValidTargets(sigs[i], valid)), at |-> i]
    ELSE SignatureLoop(sigs, valid, i + 1)

\* search_offset_by_signature: the lowest aligned, validated target of the
\* first signature that has one.
search_offset_by_signature(sigs, valid) == SignatureLoop(sigs, valid, 1)

\* |a - b|
Dist(a, b) == IF a >= b THEN a - b ELSE b - a

\* search_near_expected: delta grows from 0 in steps of 4 up to range, and at
\* each delta expected - delta is probed before expected + delta; the first
\* aligned, validated address is returned.  Over a finite set of validated
\* addresses that is the one at the least such delta, the lower one first.
search_near_expected(expected, range, valid) ==
    LET hits == {a \in valid : /\ a % 4 = 0
                               /\ Dist(a, expected) % 4 = 0
                               /\ Dist(a, expected) <= range}
        least == Min({Dist(a, expected) : a \in hits})
    IN  IF hits = {}
        THEN [ok |-> FALSE, addr |-> 0]
        ELSE IF expected - least \in hits
        THEN [ok |-> TRUE, addr |-> expected - least]
        ELSE [ok |-> TRUE, addr |-> expected + least]

search_judge_data_near_song_list(song_list, valid) ==
    search_near_expected(WrappingSub(song_list, JUDGE_TO_SONG_LIST),
                         JUDGE_DATA_SEARCH_RANGE, valid)

search_play_settings_near_judge_data(judge_data, valid) ==
    search_near_expected(WrappingSub(judge_data, JUDGE_TO_PLAY_SETTINGS),
                         PLAY_SETTINGS_SEARCH_RANGE, valid)

search_play_data_near_play_settings(play_settings, valid) ==
    search_near_expected(WrappingAdd(play_settings, PLAY_SETTINGS_TO_PLAY_DATA),
                         PLAY_DATA_SEARCH_RANGE, valid)

search_current_song_near_judge_data(judge_data, valid) ==
    search_near_expected(WrappingAdd(judge_data, JUDGE_TO_CURRENT_SONG),
                         CURRENT_SONG_SEARCH_RANGE, valid)

\* OffsetsCollection::is_valid
is_valid(o) ==
    /\ o.version # ""
    /\ o.song_list # 0
    /\ o.judge_data # 0
    /\ o.play_settings # 0
    /\ o.play_data # 0
    /\ o.current_song # 0
    /\ o.data_map # 0
    /\ o.unlock_data # 0

SearchInit ==
    /\ spc = "start"
    /\ offsets = OffsetsDefault
    /\ s_path = "none"

\* A phase that goes on with the next one, the address left at zero, when
\* the signature search and the fallback both fail.
SignaturePhase_continues(field, sig, near, next) ==
    IF sig.ok
    THEN /\ offsets' = [offsets EXCEPT ![field] = sig.addr]
         /\ s_path' = "signature"
         /\ spc' = next
    ELSE IF near.ok
    THEN /\ offsets' = [offsets EXCEPT ![field] = near.addr]
         /\ s_path' = "fallback"
         /\ spc' = next
    ELSE /\ spc' = next
         /\ s_path' = "none"
         /\ UNCHANGED offsets

\* One phase of 2..5: the signature search of the structure, and on its Err
\* the search near the expected address; Err of that one is returned.
SignaturePhase(field, sig, near, next) ==
    IF sig.ok
    THEN /\ offsets' = [offsets EXCEPT ![field] = sig.addr]
         /\ s_path' = "signature"
         /\ spc' = next
    ELSE IF near.ok
    THEN /\ offsets' = [offsets EXCEPT ![field] = near.addr]
         /\ s_path' = "fallback"
         /\ spc' = next
    ELSE /\ spc' = "err"
         /\ s_path' = "none"
         /\ UNCHANGED offsets

\* The version tag and the default collection.
SearchStart ==
    /\ spc = "start"
    /\ \E v \in SigVersions :
           offsets' = [OffsetsDefault EXCEPT
                          !.version = IF IsBlank(v) THEN "unknown" ELSE v]
    /\ spc' = "phase1"
    /\ UNCHANGED s_path
    /\ UNCHANGED notSearch

\* Phase 1: search_song_list_by_signature returns an address or Err.
SearchSongList ==
    /\ spc = "phase1"
    /\ \/ \E a \in SongListAddrs :
              /\ offsets' = [offsets EXCEPT !.song_list = a]
              /\ spc' = "phase2"
       \/ /\ spc' = "err"
          /\ UNCHANGED offsets
    /\ UNCHANGED s_path
    /\ UNCHANGED notSearch

\* Phase 2
SearchJudgeData ==
    /\ spc = "phase2"
    /\ \E sigs \in SigLists(JudgeAddrs(offsets.song_list)),
          valid \in SUBSET JudgeAddrs(offsets.song_list) :
           SignaturePhase("judge_data",
               search_offset_by_signature(sigs, valid),
               search_judge_data_near_song_list(offsets.song_list, valid),
               "phase3")
    /\ UNCHANGED notSearch

\* Phase 3
SearchPlaySettings ==
    /\ spc = "phase3"
    /\ \E sigs \in SigLists(PlaySettingsAddrs(offsets.judge_data)),
          valid \in SUBSET PlaySettingsAddrs(offsets.judge_data) :
           SignaturePhase("play_settings",
               search_offset_by_signature(sigs, valid),
               search_play_settings_near_judge_data(offsets.judge_data, valid),
               "phase4")
    /\ UNCHANGED notSearch

\* Phase 4
SearchPlayData ==
    /\ spc = "phase4"
    /\ \E sigs \in SigLists(PlayDataAddrs(offsets.play_settings)),
          valid \in SUBSET PlayDataAddrs(offsets.play_settings) :
           SignaturePhase("play_data",
               search_offset_by_signature(sigs, valid),
               search_play_data_near_play_settings(offsets.play_settings, valid),
               "phase5")
    /\ UNCHANGED notSearch

\* Phase 5
SearchCurrentSong ==
    /\ spc = "phase5"
    /\ \E sigs \in SigLists(CurrentSongAddrs(offsets.judge_data)),
          valid \in SUBSET CurrentSongAddrs(offsets.judge_data) :
           SignaturePhase("current_song",
               search_offset_by_signature(sigs, valid),
               search_current_song_near_judge_data(offsets.judge_data, valid),
               "phase6")
    /\ UNCHANGED notSearch

\* Phase 6, first half: the data map by pattern search, or Err.
SearchDataMap ==
    /\ spc = "phase6"
    /\ \/ \E a \in DataMapAddrs :
              /\ offsets' = [offsets EXCEPT !.data_map = a]
              /\ spc' = "phase7"
       \/ /\ spc' = "err"
          /\ UNCHANGED offsets
    /\ s_path' = "none"
    /\ UNCHANGED notSearch

\* Phase 6, second half: the unlock data by pattern search, or Err; then
\* the is_valid check, and the collection is returned.
SearchUnlockData ==
    /\ spc = "phase7"
    /\ \/ \E a \in UnlockDataAddrs :
              LET o == [offsets EXCEPT !.unlock_data = a]
              IN  /\ offsets' = o
                  /\ spc' = IF is_valid(o) THEN "ok" ELSE "err"
       \/ /\ spc' = "err"
          /\ UNCHANGED offsets
    /\ UNCHANGED s_path
    /\ UNCHANGED notSearch

SearchNext ==
    \/ SearchStart
    \/ SearchSongList
    \/ SearchJudgeData
    \/ SearchPlaySettings
    \/ SearchPlayData
    \/ SearchCurrentSong
    \/ SearchDataMap
    \/ SearchUnlockData

\* C9: a collection that search_all_with_signatures returns with Ok passes
\* the four relative-distance checks of the gate (one with a distance out of
\* range is rejected, not returned).
C9_ReturnedOffsetsPassGate ==
    spc = "ok" => RelativeDistanceFailure(offsets) = "none"

\* The phases in their order, and the field each one fills.
PhaseOrder ==
    <<"phase1", "phase2", "phase3", "phase4", "phase5", "phase6", "phase7">>

PhaseField ==
    <<"song_list", "judge_data", "play_settings", "play_data", "current_song",
      "data_map", "unlock_data">>

PhaseIndex(pc) == CHOOSE i \in 1..7 : PhaseOrder[i] = pc

\* Before phase k the fields of the phases before k are set and the others
\* are still zero.
FilledUpTo(o, k) ==
    \A i \in 1..7 : (o[PhaseField[i]] # 0) <=> (i < k)

\* The address a fallback of phases 2..5 is anchored on, and its range.
FallbackAnchor(pc, o) ==
    CASE pc = "phase2" -> WrappingSub(o.song_list, JUDGE_TO_SONG_LIST)
      [] pc = "phase3" -> WrappingSub(o.judge_data, JUDGE_TO_PLAY_SETTINGS)
      [] pc = "phase4" -> WrappingAdd(o.play_settings, PLAY_SETTINGS_TO_PLAY_DATA)
      [] pc = "phase5" -> WrappingAdd(o.judge_data, JUDGE_TO_CURRENT_SONG)

FallbackRange(pc) ==
    CASE pc = "phase2" -> JUDGE_DATA_SEARCH_RANGE
      [] pc = "phase3" -> PLAY_SETTINGS_SEARCH_RANGE
      [] pc = "phase4" -> PLAY_DATA_SEARCH_RANGE
      [] pc = "phase5" -> CURRENT_SONG_SEARCH_RANGE

\* A step of the search: a phase hands over to the next phase exactly when
\* it has set its own field, and nothing else; an address from a fallback
\* lies within the range around the address expected from an earlier phase;
\* a phase that fails ends the search with the error.
SearchStepInOrder ==
    spc \in {PhaseOrder[i] : i \in 1..7} =>
        LET k == PhaseIndex(spc)
        IN  /\ FilledUpTo(offsets, k)
            /\ spc' \in {IF k < 7 THEN PhaseOrder[k + 1] ELSE "ok", "err"}
            /\ spc' # "err" =>
                   /\ offsets'[PhaseField[k]] # 0
                   /\ \A i \in 1..7 :
                          i # k => offsets'[PhaseField[i]] = offsets[PhaseField[i]]
                   /\ offsets'.version = offsets.version
            /\ (spc' # "err" /\ s_path' = "fallback") =>
                   /\ k \in 2..5
                   /\ within_range(offsets'[PhaseField[k]],
                                   FallbackAnchor(spc, offsets),
                                   FallbackRange(spc))

\* Once the search has returned, with the collection or with the error,
\* nothing more happens to the collection.
SearchEnds ==
    /\ (spc = "start") => (spc' = "phase1")
    /\ (spc \in {"ok", "err"}) => (spc' = spc /\ offsets' = offsets)

\* C11: the search runs the phases SongList, JudgeData, PlaySettings,
\* PlayData, CurrentSong, DataMap, UnlockData in this order, phases 2..5
\* falling back to an address near one found earlier; it returns either a
\* collection whose seven addresses are all non-zero or an error, and after
\* a phase failed no later phase runs: the search stays at the error.
C11_SearchAllOrNothing ==
    /\ [](spc = "ok" => \A i \in 1..7 : offsets[PhaseField[i]] # 0)
    /\ [][SearchStepInOrder /\ SearchEnds]_vars

\* C11 witness: phase 3 failed, signature and fallback, after the song list
\* and the judge data were found; the search returned the error with the
\* later addresses never looked for.
C11_Witness ==
    /\ spc = "err"
    /\ offsets.song_list # 0
    /\ offsets.judge_data # 0
    /\ \A i \in 3..7 : offsets[PhaseField[i]] = 0

(***************************************************************************)
(* Signature scanner: scan_code_for_pattern, find_matches_with_wildcards   *)
(* (offset/searcher/mod.rs)                                                *)
(*                                                                         *)
(* The reader is the collaborator read_bytes(addr, len) -> bytes | error:  *)
(* a read gives len bytes when all of them are readable and fails          *)
(* otherwise.  The readable memory is sc_mem, starting at base_address.    *)
(***************************************************************************)

\* The scan ceiling and the largest chunk size, region and pattern tried.
CODE_SCAN_LIMIT == 6

MaxChunk == 3

MaxRegion == 5

MaxPattern == 3

ByteValues == {0, 1}

\* reader.base_address()
ScanBase == 16 * 4

SeqsUpTo(S, n) == UNION {[1..k -> S] : k \in 0..n}

Patterns == SeqsUpTo({Some(b) : b \in ByteValues} \cup {None}, MaxPattern) \ {<<>>}

\* buffer[i + j] for offsets from 0
Slice(buffer, from, len) == [k \in 1..len |-> buffer[from + k]]

\* The pattern matches buffer at offset i (from 0).
MatchesAt(buffer, i, pattern) ==
    \A j \in 1..Len(pattern) :
        pattern[j] = None \/ pattern[j] = Some(buffer[i + j])

\* The offsets 0..last that match, in ascending order, from offset i on.
RECURSIVE MatchesFrom(_, _, _, _)
MatchesFrom(buffer, base_addr, pattern, i) ==
    IF i > Len(buffer) - Len(pattern)
    THEN <<>>
    ELSE IF MatchesAt(buffer, i, pattern)
    THEN <<base_addr + i>> \o MatchesFrom(buffer, base_addr, pattern, i + 1)
    ELSE MatchesFrom(buffer, base_addr, pattern, i + 1)

find_matches_with_wildcards(buffer, base_addr, pattern) ==
    IF Len(pattern) = 0 \/ Len(buffer) < Len(pattern)
    THEN <<>>
    ELSE MatchesFrom(buffer, base_addr, pattern, 0)

\* reader.read_bytes(base + offset, len)
ReadOk(mem, offset, len) == offset + len <= Len(mem)

ReadBytes(mem, offset, len) == Slice(mem, offset, len)

\* sort_unstable() then dedup()
RECURSIVE SortedSeq(_)
SortedSeq(S) ==
    IF S = {}
    THEN <<>>
    ELSE LET m == CHOOSE a \in S : \A b \in S : a <= b
         IN  <<m>> \o SortedSeq(S \ {m})

SortDedup(q) == SortedSeq({q[i] : i \in 1..Len(q)})

\* u64::saturating_sub
SaturatingSub(a, b) == IF a >= b THEN a - b ELSE 0

\* A tail of one byte less than it takes.
NextTail_short(data, pattern) ==
    IF Len(pattern) > 2
    THEN LET keep == Len(pattern) - 2
         IN  IF Len(data) >= keep
             THEN Slice(data, Len(data) - keep, keep)
             ELSE data
    ELSE <<>>

\* The tail kept for the next chunk.
NextTail(data, pattern) ==
    IF Len(pattern) > 1
    THEN LET keep == Len(pattern) - 1
         IN  IF Len(data) >= keep
             THEN Slice(data, Len(data) - keep, keep)
             ELSE data
    ELSE <<>>

ScanInit ==
    /\ sc_pc = "idle"
    /\ sc_mem = <<>>
    /\ sc_pattern = <<None>>
    /\ sc_chunk = 1
    /\ sc_scanned = 0
    /\ sc_tail = <<>>
    /\ sc_results = <<>>
    /\ sc_ret = [ok |-> FALSE, matches |-> <<>>]

\* scan_code_for_pattern is entered with a pattern, on a memory.
ScanInputInit ==
    /\ sc_pc = "loop"
    /\ sc_mem \in SeqsUpTo(ByteValues, MaxRegion)
    /\ sc_pattern \in Patterns
    /\ sc_chunk \in 1..MaxChunk
    /\ sc_scanned = 0
    /\ sc_tail = <<>>
    /\ sc_results = <<>>
    /\ sc_ret = [ok |-> FALSE, matches |-> <<>>]

ReadSize == 
    LET remaining == CODE_SCAN_LIMIT - sc_scanned
    IN  IF remaining <= sc_chunk THEN remaining ELSE sc_chunk

\* One turn of the loop whose read succeeds.
ScanChunk ==
    /\ sc_pc = "loop"
    /\ sc_scanned < CODE_SCAN_LIMIT
    /\ ReadOk(sc_mem, sc_scanned, ReadSize)
    /\ LET addr == ScanBase + sc_scanned
           data == sc_tail \o ReadBytes(sc_mem, sc_scanned, ReadSize)
           data_base == SaturatingSub(addr, Len(sc_tail))
       IN  /\ sc_results' = sc_results \o
                  find_matches_with_wildcards(data, data_base, sc_pattern)
           /\ sc_tail' = NextTail(data, sc_pattern)
    /\ sc_scanned' = sc_scanned + ReadSize
    /\ UNCHANGED <<sc_pc, sc_mem, sc_pattern, sc_chunk, sc_ret>>
    /\ UNCHANGED notScan

\* The loop ends, at the ceiling or at a read that fails: Err when nothing
\* was scanned, else the matches sorted and without duplicates.
ScanReturn ==
    /\ sc_pc = "loop"
    /\ \/ sc_scanned >= CODE_SCAN_LIMIT
       \/ ~ReadOk(sc_mem, sc_scanned, ReadSize)
    /\ sc_ret' = IF sc_scanned < CODE_SCAN_LIMIT /\ sc_scanned = 0
                 THEN [ok |-> FALSE, matches |-> <<>>]
                 ELSE [ok |-> TRUE, matches |-> SortDedup(sc_results)]
    /\ sc_pc' = "done"
    /\ UNCHANGED <<sc_mem, sc_pattern, sc_chunk, sc_scanned, sc_tail, sc_results>>
    /\ UNCHANGED notScan

ScanNext == ScanChunk \/ ScanReturn

\* The bytes of the readable region below the scan ceiling.
WholeRegion ==
    IF Len(sc_mem) <= CODE_SCAN_LIMIT
    THEN sc_mem
    ELSE Slice(sc_mem, 0, CODE_SCAN_LIMIT)

\* C12: for every readable region, non-empty pattern and chunk size the
\* chunked scan returns exactly the matches of one pass of
\* find_matches_with_wildcards over the whole region, in ascending order and
\* without duplicates.
C12_ChunkedScanEqualsSinglePass ==
    (sc_pc = "done" /\ sc_ret.ok) =>
        sc_ret.matches =
            find_matches_with_wildcards(WholeRegion, ScanBase, sc_pattern)

(***************************************************************************)
(* u64 beyond the integers of the checker: three limbs, h of 16 bits and   *)
(* m, l of 24 bits, the value being h * 2^48 + m * 2^24 + l.               *)
(***************************************************************************)

Limb == 4096 * 4096

HighLimb == 256 * 256

U64(h, m, l) == [h |-> h, m |-> m, l |-> l]

\* n as u64, for 0 <= n < 2^31
U64FromInt(n) == U64(0, n \div Limb, n % Limb)

U64Zero == U64(0, 0, 0)

\* The sum a + n before it is cut to 64 bits, for an integer -2^31 <= n < 2^31
\* (a usize, a sign-extended i32, an i64 of that size): the limbs, and the
\* carry out of the top limb (-1, 0 or 1).
U64Sum(a, n) ==
    LET l0 == a.l + (n % Limb)
        m0 == a.m + (n \div Limb) + (l0 \div Limb)
        h0 == a.h + (m0 \div Limb)
    IN  [val |-> U64(h0 % HighLimb, m0 % Limb, l0 % Limb),
         carry |-> h0 \div HighLimb]

\* u64::wrapping_add_signed
WrappingAddSigned(a, n) == U64Sum(a, n).val

\* a + n on u64 overflows
AddOverflows(a, n) == U64Sum(a, n).carry # 0

\* a < b and a <= b on u64
U64Lt(a, b) ==
    \/ a.h < b.h
    \/ a.h = b.h /\ a.m < b.m
    \/ a.h = b.h /\ a.m = b.m /\ a.l < b.l

U64Le(a, b) == a = b \/ U64Lt(a, b)

\* sort_unstable() then dedup() on u64
RECURSIVE SortedU64Seq(_)
SortedU64Seq(S) ==
    IF S = {}
    THEN <<>>
    ELSE LET m == CHOOSE a \in S : \A b \in S : U64Le(a, b)
         IN  <<m>> \o SortedU64Seq(S \ {m})

SortDedupU64(q) == SortedU64Seq({q[i] : i \in 1..Len(q)})

(***************************************************************************)
(* Signature scanner: resolve_signature_targets (offset/searcher/mod.rs)   *)
(***************************************************************************)

\* The image base of the worked example, 0x140000000.
ImageBase == U64(0, 320, 0)

\* Not among the constants at hand; "above ImageBase" by the comment at its
\* use.
MIN_VALID_DATA_ADDRESS == ImageBase

\* The match sites the scan may return: 0x140001000 and 0x140002000.
MatchSites == {U64(0, 320, 4096), U64(0, 320, 8192)}

\* The signatures: instr_offset, disp_offset, instr_len, deref, addend.
Signatures ==
    [instr_offset : {0, 2}, disp_offset : {3}, instr_len : {7},
     deref : BOOLEAN, addend : {0, 0 - 16, 8}]

\* The displacements memory may hold: 0x10, 0x1010, -0x10, -0x2000, and the
\* sign-extended junk -0x7FFFFFFF.
Displacements == {16, 4112, 0 - 16, 0 - 8192, 0 - 2147483647}

\* The addresses a displacement is read at.
DispAddrs ==
    {WrappingAddSigned(m, sg.instr_offset + sg.disp_offset) :
        m \in MatchSites, sg \in Signatures}

\* The pointers read_u64 may give: null, one below the image, 0x140005000.
Pointers == {U64Zero, U64(0, 16, 0), U64(0, 320, 20480)}

ResolveInit ==
    /\ rs_pc = "idle"
    /\ rs_sig = [instr_offset |-> 0, disp_offset |-> 0, instr_len |-> 0,
                 deref |-> FALSE, addend |-> 0]
    /\ rs_matches = <<>>
    /\ rs_disp = [a \in DispAddrs |-> "unreadable"]
    /\ rs_i = 1
    /\ rs_targets = <<>>
    /\ rs_log = <<>>
    /\ rs_ret = <<>>

\* resolve_signature_targets is entered: the scan has returned its matches.
ResolveInputInit ==
    /\ rs_pc = "loop"
    /\ rs_sig \in Signatures
    /\ rs_matches \in {SortedU64Seq(S) : S \in SUBSET MatchSites}
    /\ rs_disp \in [DispAddrs -> {[ok |-> TRUE, disp |-> d] : d \in Displacements}
                                  \cup {[ok |-> FALSE, disp |-> 0]}]
    /\ rs_i = 1
    /\ rs_targets = <<>>
    /\ rs_log = <<>>
    /\ rs_ret = <<>>

\* A target that leaves out the length of the instruction.
RipTarget_no_instr_len(match_addr, sig, disp) ==
    WrappingAddSigned(WrappingAddSigned(match_addr, sig.instr_offset), disp)

\* instr_addr, next_ip and the target of the displacement.
RipTarget(match_addr, sig, disp) ==
    LET instr_addr == WrappingAddSigned(match_addr, sig.instr_offset)
        next_ip == WrappingAddSigned(instr_addr, sig.instr_len)
    IN  WrappingAddSigned(next_ip, disp)

\* A check that lets every target through.
FinishTarget_no_minimum(target0, sig) ==
    LET target == IF sig.addend # 0
                  THEN WrappingAddSigned(target0, sig.addend)
                  ELSE target0
    IN  [pushed |-> target # U64Zero, target |-> target]

\* What a match site comes to once its target is known: the addend, then
\* the check against MIN_VALID_DATA_ADDRESS and against zero.
FinishTarget(target0, sig) ==
    LET target == IF sig.addend # 0
                  THEN WrappingAddSigned(target0, sig.addend)
                  ELSE target0
    IN  IF U64Lt(target, MIN_VALID_DATA_ADDRESS)
        THEN [pushed |-> FALSE, target |-> target]
        ELSE [pushed |-> target # U64Zero, target |-> target]

\* One turn of the loop over the match sites.
ResolveSite ==
    /\ rs_pc = "loop"
    /\ rs_i <= Len(rs_matches)
    /\ LET match_addr == rs_matches[rs_i]
           instr_addr == WrappingAddSigned(match_addr, rs_sig.instr_offset)
           disp_addr == WrappingAddSigned(instr_addr, rs_sig.disp_offset)
           rd == rs_disp[disp_addr]
           rip == RipTarget(match_addr, rs_sig, rd.disp)
       IN  IF ~rd.ok
           THEN /\ rs_log' = Append(rs_log, [site |-> match_addr, how |-> "disp unreadable"])
                /\ UNCHANGED rs_targets
           ELSE IF rs_sig.deref
           THEN \/ /\ rs_log' = Append(rs_log, [site |-> match_addr, how |-> "deref unreadable"])
                   /\ UNCHANGED rs_targets
                \/ \E ptr \in Pointers :
                       LET f == FinishTarget(ptr, rs_sig)
                       IN  /\ rs_targets' = IF f.pushed
                                            THEN Append(rs_targets, f.target)
                                            ELSE rs_targets
                           /\ rs_log' = Append(rs_log,
                                  [site |-> match_addr,
                                   how |-> IF f.pushed THEN "pushed" ELSE "rejected",
                                   rip |-> rip, ptr |-> ptr, target |-> f.target])
           ELSE LET f == FinishTarget(rip, rs_sig)
                IN  /\ rs_targets' = IF f.pushed
                                     THEN Append(rs_targets, f.target)
                                     ELSE rs_targets
                    /\ rs_log' = Append(rs_log,
                           [site |-> match_addr,
                            how |-> IF f.pushed THEN "pushed" ELSE "rejected",
                            rip |-> rip, ptr |-> rip, target |-> f.target])
    /\ rs_i' = rs_i + 1
    /\ UNCHANGED <<rs_pc, rs_sig, rs_matches, rs_disp, rs_ret>>
    /\ UNCHANGED notResolve

\* After the last match site: sort, dedup, Ok(targets).
ResolveReturn ==
    /\ rs_pc = "loop"
    /\ rs_i > Len(rs_matches)
    /\ rs_ret' = SortDedupU64(rs_targets)
    /\ rs_pc' = "done"
    /\ UNCHANGED <<rs_sig, rs_matches, rs_disp, rs_i, rs_targets, rs_log>>
    /\ UNCHANGED notResolve

ResolveNext == ResolveSite \/ ResolveReturn

\* The match sites whose displacement, and pointer if any, could be read.
ResolvedEntries ==
    {i \in 1..Len(rs_log) : rs_log[i].how \in {"pushed", "rejected"}}

\* The displacement memory holds for match site m.
DispAt(m) ==
    rs_disp[WrappingAddSigned(m, rs_sig.instr_offset + rs_sig.disp_offset)].disp

\* The signature and the match site of the worked example.
S4Signature ==
    [instr_offset |-> 0, disp_offset |-> 3, instr_len |-> 7,
     deref |-> FALSE, addend |-> 0]

S4Site == U64(0, 320, 4096)

S4Target == U64(0, 320, 4119)

\* C13: for each match site the target is (match_addr + instr_offset) +
\* instr_len + the sign-extended i32 read at match_addr + instr_offset +
\* disp_offset, then the u64 read at it when deref is set, then plus the
\* signed addend; a negative displacement gives a target below the next
\* instruction; the match at 0x140001000 with instr_offset 0, disp_offset 3,
\* instr_len 7, displacement 0x10, no deref and addend 0 gives 0x140001017.
C13_TargetOfMatchSite ==
    \A i \in ResolvedEntries :
        LET e == rs_log[i]
            next_ip == WrappingAddSigned(e.site,
                           rs_sig.instr_offset + rs_sig.instr_len)
        IN  /\ e.site = rs_matches[i]
            /\ e.rip = WrappingAddSigned(e.site,
                           rs_sig.instr_offset + rs_sig.instr_len + DispAt(e.site))
            /\ DispAt(e.site) < 0 => U64Lt(e.rip, next_ip)
            /\ DispAt(e.site) > 0 => U64Lt(next_ip, e.rip)
            /\ IF rs_sig.deref THEN e.ptr \in Pointers ELSE e.ptr = e.rip
            /\ e.target = WrappingAddSigned(e.ptr, rs_sig.addend)
            /\ (rs_sig = S4Signature /\ e.site = S4Site /\ DispAt(e.site) = 16) =>
                   e.target = S4Target

\* C13 witness: the match site of the worked example has been resolved, to
\* 0x140001017.
C13_Witness ==
    /\ rs_sig = S4Signature
    /\ rs_matches = <<S4Site>>
    /\ DispAt(S4Site) = 16
    /\ Len(rs_log) = 1
    /\ rs_log[1].how \in {"pushed", "rejected"}
    /\ rs_log[1].target = S4Target

\* C14: every address resolve_signature_targets returns is at least
\* MIN_VALID_DATA_ADDRESS, the list is ascending without duplicates, and a
\* match site whose displacement or pointer cannot be read is skipped: the
\* other sites are resolved and the list is returned all the same.
C14_TargetsValidSortedSkipping ==
    /\ rs_pc = "done" =>
          /\ \A k \in 1..Len(rs_ret) : U64Le(MIN_VALID_DATA_ADDRESS, rs_ret[k])
          /\ \A k \in 1..Len(rs_ret) - 1 : U64Lt(rs_ret[k], rs_ret[k + 1])
          /\ Len(rs_log) = Len(rs_matches)
          /\ \A i \in 1..Len(rs_log) :
                 rs_log[i].how = "pushed" =>
                     \E k \in 1..Len(rs_ret) : rs_ret[k] = rs_log[i].target
          /\ \A k \in 1..Len(rs_ret) :
                 \E i \in 1..Len(rs_log) :
                     rs_log[i].how = "pushed" /\ rs_log[i].target = rs_ret[k]
    /\ \A i \in 1..Len(rs_log) :
          /\ rs_log[i].how = "disp unreadable" <=>
                 ~rs_disp[WrappingAddSigned(rs_log[i].site,
                              rs_sig.instr_offset + rs_sig.disp_offset)].ok
          /\ rs_log[i].how = "deref unreadable" => rs_sig.deref
          /\ rs_log[i].how = "rejected" <=>
                 /\ rs_log[i].how \notin {"disp unreadable", "deref unreadable"}
                 /\ U64Lt(rs_log[i].target, MIN_VALID_DATA_ADDRESS)

\* C14 witness: the first match site was skipped for its unreadable
\* displacement, the second one resolved and returned.
C14_Witness ==
    /\ rs_pc = "done"
    /\ Len(rs_log) = 2
    /\ rs_log[1].how = "disp unreadable"
    /\ rs_log[2].how = "pushed"
    /\ rs_ret = <<rs_log[2].target>>

(***************************************************************************)
(* search_offset_by_signature on its own (offset/searcher/mod.rs)          *)
(***************************************************************************)

\* The targets the signatures of the entry may resolve to; 18 is not a
\* multiple of 4.
SigTargets == {12, 18, 20}

SigSearchInit ==
    /\ ss_pc = "idle"
    /\ ss_entry = FALSE
    /\ ss_sigs = <<>>
    /\ ss_valid = {}
    /\ ss_ret = [ok |-> FALSE, addr |-> 0, at |-> 0]

\* search_offset_by_signature is called for an entry, on a memory.
SigSearchInputInit ==
    /\ ss_pc = "call"
    /\ ss_entry \in BOOLEAN
    /\ ss_sigs \in SigLists(SigTargets)
    /\ ss_entry = FALSE => ss_sigs = <<>>
    /\ ss_valid \in SUBSET SigTargets
    /\ ss_ret = [ok |-> FALSE, addr |-> 0, at |-> 0]

\* The call: Err when the entry is missing, else the loop over its
\* signatures.
SearchOffsetBySignature ==
    /\ ss_pc = "call"
    /\ ss_ret' = IF ~ss_entry
                 THEN [ok |-> FALSE, addr |-> 0, at |-> 0]
                 ELSE search_offset_by_signature(ss_sigs, ss_valid)
    /\ ss_pc' = "done"
    /\ UNCHANGED <<ss_entry, ss_sigs, ss_valid>>
    /\ UNCHANGED notSigSearch

SigSearchNext == SearchOffsetBySignature

\* The validator-passing targets of signature i.
Passing(i) == ss_sigs[i].targets \cap ss_valid

\* C15: the signatures are tried in list order; the result is the smallest
\* validator-passing target of the first signature that has one, later
\* signatures being consulted only if every earlier one had none, and the
\* search fails only if no signature of the list has one.
C15_FirstSignatureSmallestTarget ==
    ss_pc = "done" =>
        IF \E i \in 1..Len(ss_sigs) : Passing(i) # {}
        THEN LET first == Min({i \in 1..Len(ss_sigs) : Passing(i) # {}})
             IN  /\ ss_ret.ok
                 /\ ss_ret.at = first
                 /\ ss_ret.addr = Min(Passing(first))
        ELSE ~ss_ret.ok

\* The targets of signature i that count: validator-passing multiples of 4.
Usable(i) == {a \in Passing(i) : a % 4 = 0}

\* The signatures before which the loop has not ended: every earlier one
\* resolved, to no usable target.
Reached(i) ==
    \A j \in 1..(i - 1) : ss_sigs[j].ok /\ Usable(j) = {}

\* C15 as amended: the signatures are tried in list order; the result is the
\* smallest validator-passing target that is a multiple of 4 of the first
\* signature that has one, later signatures being consulted only if every
\* earlier one resolved and had none; the search fails if no signature has
\* one, and also as soon as a signature it reaches cannot be resolved (its
\* pattern does not parse, the code cannot be read), whatever the later
\* signatures would give, or when the entry is missing.
C15_FirstUsableSignatureOrError ==
    ss_pc = "done" =>
        IF \E i \in 1..Len(ss_sigs) : Reached(i) /\ (~ss_sigs[i].ok \/ Usable(i) # {})
        THEN LET first == Min({i \in 1..Len(ss_sigs) :
                                  Reached(i) /\ (~ss_sigs[i].ok \/ Usable(i) # {})})
             IN  /\ ss_ret.at = first
                 /\ ss_ret.ok = ss_sigs[first].ok
                 /\ ss_ret.ok => ss_ret.addr = Min(Usable(first))
        ELSE ~ss_ret.ok

\* C15 witness: the first signature resolved to targets none of which is
\* usable, and the smallest usable target of the second one was returned.
C15_Witness ==
    /\ ss_pc = "done"
    /\ Len(ss_sigs) = 2
    /\ ss_sigs[1].ok
    /\ ss_sigs[1].targets # {}
    /\ Usable(1) = {}
    /\ Usable(2) = {12, 20}
    /\ ss_ret = [ok |-> TRUE, addr |-> 12, at |-> 2]

(***************************************************************************)
(* The validators (reflux-core offset/searcher/mod.rs, memory/layout.rs;   *)
(* infst offset/searcher/validation/play.rs)                               *)
(*                                                                         *)
(* addr + offset is a plain u64 addition: where it exceeds the u64 range   *)
(* it panics in a build that checks overflow and wraps in one that does    *)
(* not.  Memory is given by what each read of the validator returns.       *)
(***************************************************************************)

WORD == 4

STATE_MARKER_1 == WORD * 54

STATE_MARKER_2 == WORD * 55

SONG_SELECT_MARKER == WORD * 6

play_SONG_ID == 0

play_DIFFICULTY == WORD

play_LAMP == WORD * 6

\* Not among the constants at hand; the documented range of song ids.
MIN_SONG_ID == 1000

MAX_SONG_ID == 90000

Validators ==
    {"judge_data", "play_settings", "play_data", "play_data_core", "current_song"}

\* A read that failed, and a read that gave v.
ReadErr == [ok |-> FALSE, val |-> 0]

ReadVal(v) == [ok |-> TRUE, val |-> v]

ReadsOf(S) == {ReadVal(v) : v \in S} \cup {ReadErr}

\* What the k-th read of each validator may give.
ReadChoices(fn) ==
    CASE fn = "judge_data" ->
             <<ReadsOf({0 - 1, 0, 100, 101}), ReadsOf({0 - 1, 0, 100, 101})>>
      [] fn = "play_settings" ->
             <<ReadsOf({0 - 1, 0, 6, 7}), ReadsOf({0, 4, 5}), ReadsOf({0, 5, 6}),
               ReadsOf({0, 1, 2}), ReadsOf({0, 5, 6}), ReadsOf({0, 1, 2})>>
      [] fn = "play_data" ->
             <<ReadsOf({0 - 1, 0, 42, 999, 1000, 90000, 90001}),
               ReadsOf({0, 2, 9, 10}), ReadsOf({0, 3, 7, 8})>>
      [] fn = "play_data_core" ->
             <<ReadsOf({0 - 1, 0, 42, 999, 1000, 90000, 90001}),
               ReadsOf({0, 2, 9, 10}), ReadsOf({0, 10000, 10001}),
               ReadsOf({0, 3000, 3001})>>
      [] fn = "current_song" ->
             <<ReadsOf({0 - 1, 0, 999, 1000, 1001, 1024, 32768, 50000, 50001}),
               ReadsOf({0, 2, 9, 10}), ReadsOf({0 - 1, 0, 10000, 10001})>>

Memories(fn) ==
    LET c == ReadChoices(fn)
    IN  CASE Len(c) = 2 -> {<<r1, r2>> : r1 \in c[1], r2 \in c[2]}
          [] Len(c) = 3 -> {<<r1, r2, r3>> : r1 \in c[1], r2 \in c[2], r3 \in c[3]}
          [] Len(c) = 4 ->
                 {<<r1, r2, r3, r4>> :
                     r1 \in c[1], r2 \in c[2], r3 \in c[3], r4 \in c[4]}
          [] Len(c) = 6 ->
                 {<<r1, r2, r3, r4, r5, r6>> :
                     r1 \in c[1], r2 \in c[2], r3 \in c[3], r4 \in c[4],
                     r5 \in c[5], r6 \in c[6]}

\* The addresses passed in: 0x140001000, 0x140001002, 2^64 - 16, 2^64 - 4.
ValidatorAddrs ==
    {U64(0, 320, 4096), U64(0, 320, 4098),
     U64(HighLimb - 1, Limb - 1, Limb - 16), U64(HighLimb - 1, Limb - 1, Limb - 4)}

\* reader.read_i32(addr + off), the k-th read: the panic of the addition, or
\* what memory gives.
ReadI32(addr, off, mem, k, checks) ==
    IF checks /\ AddOverflows(addr, off)
    THEN [panic |-> TRUE, ok |-> FALSE, val |-> 0]
    ELSE [panic |-> FALSE, ok |-> mem[k].ok, val |-> mem[k].val]

\* .unwrap_or(-1)
UnwrapOrMinus1(r) == IF r.ok THEN r.val ELSE 0 - 1

\* (lo..=hi).contains(&v)
Contains(lo, hi, v) == lo <= v /\ v <= hi

\* addr.is_multiple_of(4): the limbs above the lowest are multiples of 4.
IsMultipleOf4(addr) == addr.l % 4 = 0

Verdict(b) == IF b THEN "accept" ELSE "reject"

validate_judge_data_candidate(addr, mem, checks) ==
    IF ~IsMultipleOf4(addr)
    THEN "reject"
    ELSE LET r1 == ReadI32(addr, STATE_MARKER_1, mem, 1, checks)
             r2 == ReadI32(addr, STATE_MARKER_2, mem, 2, checks)
         IN  IF r1.panic \/ r2.panic
             THEN "panic"
             ELSE Verdict(/\ Contains(0, 100, UnwrapOrMinus1(r1))
                          /\ Contains(0, 100, UnwrapOrMinus1(r2)))

\* The five reads at the head of validate_play_settings_at, from the k-th
\* on: the first one to panic or to fail ends them.
RECURSIVE SettingsReads(_, _, _, _)
SettingsReads(addr, mem, checks, k) ==
    IF k > 5
    THEN "ok"
    ELSE LET r == IF k = 1
                  THEN [panic |-> FALSE, ok |-> mem[1].ok, val |-> mem[1].val]
                  ELSE ReadI32(addr, 4 * (k - 1), mem, k, checks)
         IN  IF r.panic THEN "panic"
             ELSE IF ~r.ok THEN "fail"
             ELSE SettingsReads(addr, mem, checks, k + 1)

\* Some(addr) is "accept", None is "reject".
validate_play_settings_at(addr, mem, checks) ==
    LET reads == SettingsReads(addr, mem, checks, 1)
    IN  IF reads = "panic" THEN "panic"
        ELSE IF reads = "fail" THEN "reject"
        ELSE IF \/ ~Contains(0, 6, mem[1].val)
                \/ ~Contains(0, 4, mem[2].val)
                \/ ~Contains(0, 5, mem[3].val)
                \/ ~Contains(0, 1, mem[4].val)
                \/ ~Contains(0, 5, mem[5].val)
        THEN "reject"
        ELSE IF ~mem[6].ok THEN "reject"
        ELSE Verdict(Contains(0, 1, mem[6].val))

\* A validator that takes the all-zero initial state for play data.
validate_play_data_address_accepts_zeros(addr, mem, checks) ==
    LET r1 == ReadI32(addr, play_SONG_ID, mem, 1, checks)
        r2 == ReadI32(addr, play_DIFFICULTY, mem, 2, checks)
        r3 == ReadI32(addr, play_LAMP, mem, 3, checks)
        song_id == UnwrapOrMinus1(r1)
        difficulty == UnwrapOrMinus1(r2)
        lamp == UnwrapOrMinus1(r3)
    IN  IF r1.panic \/ r2.panic \/ r3.panic
        THEN "panic"
        ELSE IF song_id = 0 /\ difficulty = 0 /\ lamp = 0
        THEN "accept"
        ELSE Verdict(/\ Contains(MIN_SONG_ID, MAX_SONG_ID, song_id)
                     /\ Contains(0, 9, difficulty)
                     /\ Contains(0, 7, lamp))

\* validate_play_data_address of infst (validation/play.rs)
validate_play_data_address(addr, mem, checks) ==
    LET r1 == ReadI32(addr, play_SONG_ID, mem, 1, checks)
        r2 == ReadI32(addr, play_DIFFICULTY, mem, 2, checks)
        r3 == ReadI32(addr, play_LAMP, mem, 3, checks)
        song_id == UnwrapOrMinus1(r1)
        difficulty == UnwrapOrMinus1(r2)
        lamp == UnwrapOrMinus1(r3)
    IN  IF r1.panic \/ r2.panic \/ r3.panic
        THEN "panic"
        ELSE IF song_id = 0 /\ difficulty = 0 /\ lamp = 0
        THEN "reject"
        ELSE Verdict(/\ Contains(MIN_SONG_ID, MAX_SONG_ID, song_id)
                     /\ Contains(0, 9, difficulty)
                     /\ Contains(0, 7, lamp))

\* OffsetSearcher::validate_play_data_address of reflux-core; Ok(true) is
\* "accept", Ok(false) is "reject".
OffsetSearcher_validate_play_data_address(addr, mem, checks) ==
    LET r1 == [panic |-> FALSE, ok |-> mem[1].ok, val |-> mem[1].val]
        r2 == ReadI32(addr, 4, mem, 2, checks)
        r3 == ReadI32(addr, 8, mem, 3, checks)
        r4 == ReadI32(addr, 12, mem, 4, checks)
        song_id == UnwrapOrMinus1(r1)
        difficulty == UnwrapOrMinus1(r2)
        ex_score == UnwrapOrMinus1(r3)
        miss_count == UnwrapOrMinus1(r4)
    IN  IF r2.panic \/ r3.panic \/ r4.panic
        THEN "panic"
        ELSE IF song_id = 0 /\ difficulty = 0 /\ ex_score = 0 /\ miss_count = 0
        THEN "accept"
        ELSE Verdict(/\ Contains(MIN_SONG_ID, MAX_SONG_ID, song_id)
                     /\ Contains(0, 9, difficulty)
                     /\ Contains(0, 10000, ex_score)
                     /\ Contains(0, 3000, miss_count))

\* a & b on non-negative integers
RECURSIVE BitAnd(_, _)
BitAnd(a, b) ==
    IF a = 0 \/ b = 0
    THEN 0
    ELSE 2 * BitAnd(a \div 2, b \div 2) + (IF a % 2 = 1 /\ b % 2 = 1 THEN 1 ELSE 0)

\* utils::is_power_of_two
is_power_of_two(n) == n > 0 /\ BitAnd(n, n - 1) = 0

\* A validator that keeps the powers of two.
validate_current_song_address_keeps_powers(addr, mem, checks) ==
    LET r1 == [panic |-> FALSE, ok |-> mem[1].ok, val |-> mem[1].val]
        r2 == ReadI32(addr, 4, mem, 2, checks)
        r3 == ReadI32(addr, 8, mem, 3, checks)
        song_id == UnwrapOrMinus1(r1)
        difficulty == UnwrapOrMinus1(r2)
    IN  IF r2.panic THEN "panic"
        ELSE IF song_id = 0 /\ difficulty = 0 THEN "accept"
        ELSE IF ~Contains(1000, 50000, song_id) THEN "reject"
        ELSE IF ~Contains(0, 9, difficulty) THEN "reject"
        ELSE IF r3.panic THEN "panic"
        ELSE Verdict(Contains(0, 10000, UnwrapOrMinus1(r3)))

\* OffsetSearcher::validate_current_song_address
validate_current_song_address(addr, mem, checks) ==
    LET r1 == [panic |-> FALSE, ok |-> mem[1].ok, val |-> mem[1].val]
        r2 == ReadI32(addr, 4, mem, 2, checks)
        r3 == ReadI32(addr, 8, mem, 3, checks)
        song_id == UnwrapOrMinus1(r1)
        difficulty == UnwrapOrMinus1(r2)
    IN  IF r2.panic THEN "panic"
        ELSE IF song_id = 0 /\ difficulty = 0 THEN "accept"
        ELSE IF ~Contains(1000, 50000, song_id) THEN "reject"
        ELSE IF is_power_of_two(song_id) THEN "reject"
        ELSE IF ~Contains(0, 9, difficulty) THEN "reject"
        ELSE IF r3.panic THEN "panic"
        ELSE Verdict(Contains(0, 10000, UnwrapOrMinus1(r3)))

\* The validator fn.
RunValidator(fn, addr, mem, checks) ==
    CASE fn = "judge_data" -> validate_judge_data_candidate(addr, mem, checks)
      [] fn = "play_settings" -> validate_play_settings_at(addr, mem, checks)
      [] fn = "play_data" -> validate_play_data_address(addr, mem, checks)
      [] fn = "play_data_core" ->
             OffsetSearcher_validate_play_data_address(addr, mem, checks)
      [] fn = "current_song" -> validate_current_song_address(addr, mem, checks)

ValidatorInit ==
    /\ v_pc = "idle"
    /\ v_fn = "judge_data"
    /\ v_addr = U64Zero
    /\ v_mem = <<ReadErr, ReadErr>>
    /\ v_checks = FALSE
    /\ v_ret = "none"

\* A validator is called with an address, on a memory, in a build.
ValidatorInputInit ==
    /\ v_pc = "call"
    /\ v_fn \in Validators
    /\ v_addr \in ValidatorAddrs
    /\ v_mem \in Memories(v_fn)
    /\ v_checks \in BOOLEAN
    /\ v_ret = "none"

\* One call of a validator.
Validate ==
    /\ v_pc = "call"
    /\ v_ret' = RunValidator(v_fn, v_addr, v_mem, v_checks)
    /\ v_pc' = "done"
    /\ UNCHANGED <<v_fn, v_addr, v_mem, v_checks>>
    /\ UNCHANGED notValidator

ValidatorNext == Validate

\* The words memory gives at the reads of the validator called.
AllReadsOk == \A k \in 1..Len(v_mem) : v_mem[k].ok

Word(k) == v_mem[k].val

\* The structure at v_addr lies within the address space: none of the
\* field addresses exceeds the u64 range.
FieldsFit == ~AddOverflows(v_addr, STATE_MARKER_2 + WORD)

\* C16: every validator is total: for every address, also one so close to
\* 2^64 that adding a field offset exceeds the u64 range, and every memory,
\* with any of the reads failing, it ends with accept or reject, never with
\* a panic, and it rejects whenever a read it depends on fails.
C16_ValidatorsTotal ==
    v_pc = "done" =>
        /\ v_ret \in {"accept", "reject"}
        /\ (\E k \in 1..Len(v_mem) :
                /\ ~v_mem[k].ok
                /\ ~(v_fn = "current_song" /\ k = 3
                        /\ v_mem[1] = ReadVal(0) /\ v_mem[2] = ReadVal(0)))
               => v_ret = "reject"

PowersOfTwo == {2 ^ k : k \in 0..30}

\* C18: the CurrentSong validator accepts an address if and only if the
\* words read there are the initial zeros (song_id 0 and difficulty 0), or
\* song_id is in [1000, 50000] and no power of two, difficulty is in [0, 9]
\* and the third word is in [0, 10000].
C18_CurrentSongAccepts ==
    (v_pc = "done" /\ v_fn = "current_song" /\ FieldsFit /\ AllReadsOk) =>
        (v_ret = "accept" <=>
            \/ Word(1) = 0 /\ Word(2) = 0
            \/ /\ Word(1) \in 1000..50000
               /\ Word(1) \notin PowersOfTwo
               /\ Word(2) \in 0..9
               /\ Word(3) \in 0..10000)

\* C18 witness: song_id 1024, a power of two, was rejected with the other
\* words in their ranges.
C18_Witness ==
    /\ v_pc = "done"
    /\ v_fn = "current_song"
    /\ FieldsFit
    /\ v_mem = <<ReadVal(1024), ReadVal(2), ReadVal(0)>>
    /\ v_ret = "reject"

(***************************************************************************)
(* The offset cache (infst, offset/cache.rs)                               *)
(*                                                                         *)
(* A String is the sequence of its characters.  The cache file holds the   *)
(* JSON text serde_json writes, as the sequence of its tokens: braces,     *)
(* member names, string literals (the escaped characters between the       *)
(* quotes) and number literals (the decimal digits).                       *)
(***************************************************************************)

MAX_CACHE_AGE_SECS == 24 * 60 * 60

\* The version tags of caches and of the running game; tags are arbitrary
\* text, so some hold characters JSON escapes.
CacheVersions == {<<"P", "2">>, <<"p", "2">>, <<"\"", "\\", "\n">>}

\* OffsetsCollection::is_valid() of the cached collection.
OffsetsCollection_is_valid(o) ==
    /\ o.version # <<>>
    /\ o.song_list # 0
    /\ o.data_map # 0
    /\ o.judge_data # 0
    /\ o.play_data # 0
    /\ o.play_settings # 0
    /\ o.unlock_data # 0
    /\ o.current_song # 0

\* The collection of test_cache_save_and_load.
CacheOffsetsFull(v) ==
    [version |-> v, song_list |-> 4096, judge_data |-> 8192,
     play_settings |-> 12288, play_data |-> 16384, current_song |-> 20480,
     data_map |-> 24576, unlock_data |-> 28672]

AddressFields ==
    {"song_list", "judge_data", "play_settings", "play_data", "current_song",
     "data_map", "unlock_data"}

\* The cached collections: the one of the test, the same with one address
\* zero, the default (all zero), and one of large addresses; each with an
\* empty and with a non-empty version.
CacheOffsets ==
    UNION {{CacheOffsetsFull(v),
            [f \in DOMAIN CacheOffsetsFull(v) |->
                IF f = "version" THEN v ELSE 0],
            [f \in DOMAIN CacheOffsetsFull(v) |->
                IF f = "version" THEN v ELSE 2147483647 - CacheOffsetsFull(v)[f]]}
           \cup {[CacheOffsetsFull(v) EXCEPT ![f] = 0] : f \in AddressFields} :
           v \in {<<>>, <<"t", "\\">>}}

\* The system clock, in seconds since the Unix epoch; negative when the
\* clock is set before the epoch.
Clocks == {0 - 5, 100000}

CreatedAts == {0, 13599, 13600, 13601, 100001}

Caches ==
    {[version |-> v, offsets |-> o, created_at |-> t] :
        v \in CacheVersions, o \in CacheOffsets, t \in CreatedAts}

\* SystemTime::now().duration_since(UNIX_EPOCH).map(|d| d.as_secs())
\*     .unwrap_or(0)
NowSecs(clock) == IF clock < 0 THEN 0 ELSE clock

is_valid_for_strict(cache, game_version, clock) ==
    IF cache.version # game_version
    THEN FALSE
    ELSE LET now == NowSecs(clock)
             age == SaturatingSub(now, cache.created_at)
         IN  IF age >= MAX_CACHE_AGE_SECS
             THEN FALSE
             ELSE IF ~OffsetsCollection_is_valid(cache.offsets)
                  THEN FALSE
                  ELSE TRUE

\* OffsetCache::is_valid_for.
is_valid_for(cache, game_version, clock) ==
    IF cache.version # game_version
    THEN FALSE
    ELSE LET now == NowSecs(clock)
             age == SaturatingSub(now, cache.created_at)
         IN  IF age > MAX_CACHE_AGE_SECS
             THEN FALSE
             ELSE IF ~OffsetsCollection_is_valid(cache.offsets)
                  THEN FALSE
                  ELSE TRUE

\* ---- serde_json: writing ----

Digits == <<"0", "1", "2", "3", "4", "5", "6", "7", "8", "9">>

RECURSIVE FormatU64(_)
\* A u64 as its decimal digits.
FormatU64(n) ==
    IF n < 10
    THEN <<Digits[n + 1]>>
    ELSE Append(FormatU64(n \div 10), Digits[(n % 10) + 1])

RECURSIVE Escape_raw(_)
Escape_raw(s) ==
    IF s = <<>> THEN <<>> ELSE <<Head(s)>> \o Escape_raw(Tail(s))

RECURSIVE Escape(_)
\* The characters of a string literal: quote, backslash and line feed are
\* written as two-character escapes.
Escape(s) ==
    IF s = <<>>
    THEN <<>>
    ELSE LET c == Head(s)
         IN  (IF c = "\"" THEN <<"\\", "\"">>
              ELSE IF c = "\\" THEN <<"\\", "\\">>
              ELSE IF c = "\n" THEN <<"\\", "n">>
              ELSE <<c>>) \o Escape(Tail(s))

LBrace == [k |-> "{", s |-> <<>>]

RBrace == [k |-> "}", s |-> <<>>]

KeyToken(name) == [k |-> "key", s |-> <<name>>]

StrToken(s) == [k |-> "str", s |-> Escape(s)]

NumToken(n) == [k |-> "num", s |-> FormatU64(n)]

\* Serialize of OffsetsCollection: the fields in the order of declaration.
SerializeOffsets(o) ==
    <<LBrace,
      KeyToken("version"), StrToken(o.version),
      KeyToken("song_list"), NumToken(o.song_list),
      KeyToken("data_map"), NumToken(o.data_map),
      KeyToken("judge_data"), NumToken(o.judge_data),
      KeyToken("play_data"), NumToken(o.play_data),
      KeyToken("play_settings"), NumToken(o.play_settings),
      KeyToken("unlock_data"), NumToken(o.unlock_data),
      KeyToken("current_song"), NumToken(o.current_song),
      RBrace>>

\* serde_json::to_string_pretty(self) of an OffsetCache.
to_string_pretty(cache) ==
    <<LBrace, KeyToken("version"), StrToken(cache.version), KeyToken("offsets")>>
    \o SerializeOffsets(cache.offsets)
    \o <<KeyToken("created_at"), NumToken(cache.created_at), RBrace>>

\* ---- serde_json: reading ----

DigitValue(c) == CHOOSE d \in 0..9 : Digits[d + 1] = c

RECURSIVE DigitsValue(_)
DigitsValue(ds) ==
    IF ds = <<>>
    THEN 0
    ELSE 10 * DigitsValue(SubSeq(ds, 1, Len(ds) - 1)) + DigitValue(ds[Len(ds)])

\* A number literal read as u64: digits only, no leading zero.  (A literal
\* above u64::MAX is an error; the addresses and times here stay below.)
ParseU64(ds) ==
    IF \/ ds = <<>>
       \/ \E i \in 1..Len(ds) : \A d \in 1..10 : Digits[d] # ds[i]
       \/ (Len(ds) > 1 /\ ds[1] = "0")
    THEN None
    ELSE Some(DigitsValue(ds))

RECURSIVE Unescape(_)
\* The string a string literal stands for; an unknown escape, a bare quote
\* or a bare control character is an error.
Unescape(e) ==
    IF e = <<>>
    THEN Some(<<>>)
    ELSE IF Head(e) = "\\"
         THEN IF Len(e) < 2 \/ e[2] \notin {"\"", "\\", "n"}
              THEN None
              ELSE {<<IF e[2] = "n" THEN "\n" ELSE e[2]>> \o r :
                       r \in Unescape(SubSeq(e, 3, Len(e)))}
         ELSE IF Head(e) \in {"\"", "\n"}
              THEN None
              ELSE {<<Head(e)>> \o r : r \in Unescape(Tail(e))}

ParseFailure == [ok |-> FALSE, end |-> 0, members |-> <<>>]

RECURSIVE Members(_, _, _)
\* The members of the object whose first member starts at token i, up to
\* its closing brace at token `end'.
Members(toks, i, acc) ==
    IF i > Len(toks)
    THEN ParseFailure
    ELSE IF toks[i].k = "}"
         THEN [ok |-> TRUE, end |-> i, members |-> acc]
         ELSE IF toks[i].k # "key" \/ i + 1 > Len(toks)
              THEN ParseFailure
              ELSE LET key == toks[i].s[1]
                       v == toks[i + 1]
                   IN  IF v.k \in {"str", "num"}
                       THEN Members(toks, i + 2,
                                Append(acc, [key |-> key, val |-> v,
                                             inner |-> <<>>]))
                       ELSE IF v.k = "{"
                            THEN LET in == Members(toks, i + 2, <<>>)
                                 IN  IF ~in.ok
                                     THEN ParseFailure
                                     ELSE Members(toks, in.end + 1,
                                              Append(acc,
                                                  [key |-> key, val |-> v,
                                                   inner |-> in.members]))
                            ELSE ParseFailure

\* The document: one object, and nothing after it.
ParseObject(toks) ==
    IF toks = <<>> \/ toks[1].k # "{"
    THEN ParseFailure
    ELSE LET w == Members(toks, 2, <<>>)
         IN  IF w.ok /\ w.end = Len(toks) THEN w ELSE ParseFailure

\* The member of a struct field: a missing and a duplicate field are errors,
\* members of other names are ignored.
Field(members, name) ==
    LET idx == {i \in 1..Len(members) : members[i].key = name}
    IN  IF Cardinality(idx) # 1
        THEN None
        ELSE Some(members[CHOOSE i \in idx : TRUE])

FieldU64(members, name) ==
    UNION {IF m.val.k = "num" THEN ParseU64(m.val.s) ELSE None :
              m \in Field(members, name)}

FieldString(members, name) ==
    UNION {IF m.val.k = "str" THEN Unescape(m.val.s) ELSE None :
              m \in Field(members, name)}

\* Deserialize of OffsetsCollection.
DeserializeOffsets(members) ==
    {[version |-> v, song_list |-> sl, data_map |-> dm, judge_data |-> jd,
      play_data |-> pd, play_settings |-> ps, unlock_data |-> ud,
      current_song |-> cs] :
        v \in FieldString(members, "version"),
        sl \in FieldU64(members, "song_list"),
        dm \in FieldU64(members, "data_map"),
        jd \in FieldU64(members, "judge_data"),
        pd \in FieldU64(members, "play_data"),
        ps \in FieldU64(members, "play_settings"),
        ud \in FieldU64(members, "unlock_data"),
        cs \in FieldU64(members, "current_song")}

\* serde_json::from_str::<OffsetCache>(&content), Err as None.
from_str(toks) ==
    LET w == ParseObject(toks)
    IN  IF ~w.ok
        THEN None
        ELSE {[version |-> v, offsets |-> o, created_at |-> t] :
                 v \in FieldString(w.members, "version"),
                 o \in UNION {IF m.val.k = "{"
                              THEN DeserializeOffsets(m.inner)
                              ELSE None :
                                 m \in Field(w.members, "offsets")},
                 t \in FieldU64(w.members, "created_at")}

\* OffsetCache::load_from_path: the file is missing or unreadable (None),
\* or it has a content.
load_from_path(file) ==
    IF file = None
    THEN None
    ELSE from_str(CHOOSE content \in file : TRUE)

try_load_cached_offsets_unchecked(file, game_version, clock) ==
    {cache.offsets : cache \in load_from_path(file)}

\* try_load_cached_offsets.
try_load_cached_offsets(file, game_version, clock) ==
    UNION {IF is_valid_for(cache, game_version, clock)
           THEN Some(cache.offsets)
           ELSE None :
              cache \in load_from_path(file)}

\* The cache file before the program touches it: missing, empty, or
\* written by an earlier run.
CacheFiles ==
    {None, Some(<<>>),
     Some(to_string_pretty([version |-> <<"P", "2">>,
                            offsets |-> CacheOffsetsFull(<<"t">>),
                            created_at |-> 13600]))}

\* No cache is in use.
CacheInit ==
    /\ c_pc = "idle"
    /\ c_cache = [version |-> <<>>, offsets |-> CacheOffsetsFull(<<>>),
                  created_at |-> 0]
    /\ c_file = None
    /\ c_game = <<>>
    /\ c_clock = 0
    /\ c_loaded = None
    /\ c_valid = None
    /\ c_try = None

\* A cache in memory, a cache file, the version of the game and a clock.
CacheInputInit ==
    /\ c_pc = "start"
    /\ c_cache \in Caches
    /\ c_file \in CacheFiles
    /\ c_game \in CacheVersions
    /\ c_clock \in Clocks
    /\ c_loaded = None
    /\ c_valid = None
    /\ c_try = None

\* cache.is_valid_for(game_version) on the cache in memory.
IsValidFor ==
    /\ c_pc = "start"
    /\ c_valid' = Some(is_valid_for(c_cache, c_game, c_clock))
    /\ c_pc' = "checked"
    /\ UNCHANGED <<c_cache, c_file, c_game, c_clock, c_loaded, c_try>>
    /\ UNCHANGED notCache

\* cache.save_to_path(p) returns Ok: the file holds the text.
SaveToPath ==
    /\ c_pc = "start"
    /\ c_file' = Some(to_string_pretty(c_cache))
    /\ c_pc' = "saved"
    /\ UNCHANGED <<c_cache, c_game, c_clock, c_loaded, c_valid, c_try>>
    /\ UNCHANGED notCache

\* cache.save_to_path(p) returns Err: fs::write failed, and the file is as
\* it was or was truncated.
SaveToPathFails ==
    /\ c_pc = "start"
    /\ c_file' \in {c_file, Some(<<>>)}
    /\ c_pc' = "save_failed"
    /\ UNCHANGED <<c_cache, c_game, c_clock, c_loaded, c_valid, c_try>>
    /\ UNCHANGED notCache

\* OffsetCache::load_from_path(p).
LoadFromPath ==
    /\ c_pc \in {"saved", "save_failed"}
    /\ c_loaded' = load_from_path(c_file)
    /\ c_pc' = IF c_pc = "saved" THEN "loaded" ELSE "loaded_old"
    /\ UNCHANGED <<c_cache, c_file, c_game, c_clock, c_valid, c_try>>
    /\ UNCHANGED notCache

\* loaded.is_valid_for(game_version) on the cache read back.
IsValidForLoaded ==
    /\ c_pc = "loaded"
    /\ c_loaded # None
    /\ c_valid' = {is_valid_for(cache, c_game, c_clock) : cache \in c_loaded}
    /\ c_pc' = "checked_loaded"
    /\ UNCHANGED <<c_cache, c_file, c_game, c_clock, c_loaded, c_try>>
    /\ UNCHANGED notCache

\* try_load_cached_offsets(game_version).
TryLoadCachedOffsets ==
    /\ c_pc \in {"start", "saved", "save_failed", "cache_saved", "cache_warned"}
    /\ c_try' = try_load_cached_offsets(c_file, c_game, c_clock)
    /\ c_pc' = "tried"
    /\ UNCHANGED <<c_cache, c_file, c_game, c_clock, c_loaded, c_valid>>
    /\ UNCHANGED notCache

\* OffsetCache::new(version, offsets): stamped with the clock.
OffsetCacheNew(game_version, collection, clock) ==
    [version |-> game_version, offsets |-> collection,
     created_at |-> NowSecs(clock)]

\* save_offsets_to_cache(version, offsets): a new cache is written; when the
\* write fails, a warning is logged; the function returns in both cases.
SaveOffsetsToCache ==
    /\ c_pc = "start"
    /\ c_cache' = OffsetCacheNew(c_game, c_cache.offsets, c_clock)
    /\ \/ /\ c_file' = Some(to_string_pretty(c_cache'))
          /\ c_pc' = "cache_saved"
       \/ /\ c_file' \in {c_file, Some(<<>>)}
          /\ c_pc' = "cache_warned"
    /\ UNCHANGED <<c_game, c_clock, c_loaded, c_valid, c_try>>
    /\ UNCHANGED notCache

CacheNext ==
    \/ SaveOffsetsToCache
    \/ IsValidFor
    \/ SaveToPath
    \/ SaveToPathFails
    \/ LoadFromPath
    \/ IsValidForLoaded
    \/ TryLoadCachedOffsets

\* The three conditions of a valid reload, for a cache, the version of the
\* game and the clock.
ReloadConditions(cache, game_version, clock) ==
    /\ cache.version = game_version
    /\ clock - cache.created_at <= 24 * 3600
    /\ cache.offsets.version # <<>>
    /\ \A f \in AddressFields : cache.offsets[f] # 0

\* C19: is_valid_for(game_version) returns true if and only if the version
\* of the cache equals game_version, now - created_at is at most 24 hours
\* (exactly 24 hours is valid, a second more is not) and the cached
\* collection is valid; try_load_cached_offsets returns the offsets of the
\* cache file only in that case.
C19_CacheValidIff ==
    /\ c_pc = "checked" =>
          c_valid = Some(ReloadConditions(c_cache, c_game, c_clock))
    /\ c_pc = "checked_loaded" =>
          c_valid = {ReloadConditions(cache, c_game, c_clock) :
                        cache \in c_loaded}
    /\ c_pc = "tried" =>
          c_try = {cache.offsets :
                      cache \in {l \in load_from_path(c_file) :
                                    ReloadConditions(l, c_game, c_clock)}}

\* C19 witness: a cache of the version of the game, with a valid collection
\* and aged 24 hours to the second, was found valid.
C19_Witness ==
    /\ c_pc = "checked"
    /\ c_cache.version = c_game
    /\ c_clock - c_cache.created_at = 24 * 3600
    /\ c_valid = Some(TRUE)

\* C20: save_to_path(p) followed by load_from_path(p) returns a cache equal
\* to the one saved in every field (version, created_at, the version and
\* the seven addresses of the collection), and the cache read back is valid
\* for the version of the saved one while its age is under 24 hours and its
\* collection is valid.
C20_SaveLoadRoundTrip ==
    /\ c_pc \in {"loaded", "checked_loaded"} => c_loaded = Some(c_cache)
    /\ ( /\ c_pc = "checked_loaded"
         /\ c_game = c_cache.version
         /\ c_clock - c_cache.created_at < 24 * 3600
         /\ c_cache.offsets.version # <<>>
         /\ \A f \in AddressFields : c_cache.offsets[f] # 0 )
       => c_valid = Some(TRUE)

\* C20 witness: a cache whose version holds a quote, a backslash and a line
\* feed was saved, read back equal, and found valid.
C20_Witness ==
    /\ c_pc = "checked_loaded"
    /\ c_cache.version = <<"\"", "\\", "\n">>
    /\ c_cache.offsets.version = <<"t", "\\">>
    /\ c_loaded = Some(c_cache)
    /\ c_valid = Some(TRUE)

\* The calls of the cache operations end in one of these positions; none of
\* them is an error or an abort of the caller.
CacheReturns ==
    {"idle", "start", "checked", "saved", "save_failed", "loaded",
     "loaded_old", "checked_loaded", "tried", "cache_saved", "cache_warned"}

\* C21: cache failures are never fatal: a missing, unreadable or unparseable
\* cache file, a version mismatch, an expired cache or invalid cached
\* offsets each make try_load_cached_offsets return None, and a failed write
\* in save_offsets_to_cache ends in a warning and a normal return.
C21_CacheFailuresNotFatal ==
    /\ c_pc \in CacheReturns
    /\ c_pc = "tried" =>
          /\ load_from_path(c_file) = None => c_try = None
          /\ \A l \in load_from_path(c_file) :
                 ( \/ l.version # c_game
                   \/ c_clock - l.created_at > 24 * 3600
                   \/ l.offsets.version = <<>>
                   \/ \E f \in AddressFields : l.offsets[f] = 0 )
                 => c_try = None

\* C21 witness: try_load_cached_offsets has returned None on a file that
\* holds an expired cache of the version of the game.
C21_Witness ==
    /\ c_pc = "tried"
    /\ c_try = None
    /\ \E l \in load_from_path(c_file) :
           /\ l.version = c_game
           /\ c_clock - l.created_at > 24 * 3600
           /\ OffsetsCollection_is_valid(l.offsets)

(***************************************************************************)
(* Pure functions of the data model (reflux-core, game/ and storage/)      *)
(*                                                                         *)
(* A u32 is the record [h, l] of its two 16-bit halves, so that values up  *)
(* to 2^32 - 1 and the overflow of u32 arithmetic are represented.         *)
(***************************************************************************)

Half == 256 * 256

U32(h, l) == [h |-> h, l |-> l]

U32FromInt(n) == U32(n \div Half, n % Half)

\* The product of a u32 and a small factor, exactly: the high part is not
\* reduced.
Times(x, c) == [h |-> x.h * c + ((x.l * c) \div Half), l |-> (x.l * c) % Half]

WideGe(a, b) == a.h > b.h \/ (a.h = b.h /\ a.l >= b.l)

\* total_notes * 2 in u32: the product modulo 2^32, and whether it
\* overflowed.
U32Double(x) ==
    LET p == Times(x, 2)
    IN  [val |-> U32(p.h % Half, p.l), overflow |-> p.h >= Half]

\* ex_score as f64 / max_ex as f64.  Both operands are exact in f64 and the
\* quotient is correctly rounded; quotients of two u32 that differ as reals
\* differ by more than 2^-37 and stay apart after rounding, so the quotient
\* is kept as the fraction.  x / 0 is +inf for x > 0 and NaN for x = 0.
F64Div(num, den) ==
    IF den = U32(0, 0)
    THEN [kind |-> IF num = U32(0, 0) THEN "nan" ELSE "inf", num |-> num, den |-> den]
    ELSE [kind |-> "finite", num |-> num, den |-> den]

\* ratio >= k / 9, the constant k.0 / 9.0 being the correctly rounded k/9:
\* a comparison with NaN is false.
GeNinths(ratio, k) ==
    CASE ratio.kind = "nan" -> FALSE
      [] ratio.kind = "inf" -> TRUE
      [] OTHER -> WideGe(Times(ratio.num, 9), Times(ratio.den, k))

\* Grade::from_score_ratio.
from_score_ratio(ratio) ==
    IF GeNinths(ratio, 8) THEN "Aaa"
    ELSE IF GeNinths(ratio, 7) THEN "Aa"
    ELSE IF GeNinths(ratio, 6) THEN "A"
    ELSE IF GeNinths(ratio, 5) THEN "B"
    ELSE IF GeNinths(ratio, 4) THEN "C"
    ELSE IF GeNinths(ratio, 3) THEN "D"
    ELSE IF GeNinths(ratio, 2) THEN "E"
    ELSE "F"

calculate_grade_per_note(ex_score, total_notes, checks) ==
    IF total_notes = U32(0, 0)
    THEN "F"
    ELSE from_score_ratio(F64Div(ex_score, total_notes))

\* PlayData::calculate_grade.  total_notes * 2 panics on overflow in a build
\* with overflow checks and wraps in a build without.
calculate_grade(ex_score, total_notes, checks) ==
    IF total_notes = U32(0, 0)
    THEN "F"
    ELSE LET max_ex == U32Double(total_notes)
         IN  IF max_ex.overflow /\ checks
             THEN "panic"
             ELSE from_score_ratio(F64Div(ex_score, max_ex.val))

ExScores ==
    {U32FromInt(n) : n \in 0..20 \cup {1555, 1556, 1777, 1778, 2000}}
    \cup {U32(Half - 1, Half - 1)}

\* Note counts: none, few, the 1000 of the grade table, and counts from 2^31
\* on, whose double exceeds the u32 range.
TotalNotes ==
    {U32FromInt(n) : n \in {0, 1, 9, 1000}}
    \cup {U32(Half \div 2, 0), U32(Half \div 2, 500), U32(Half - 1, Half - 1)}

GradeInputs ==
    {[ex_score |-> e, total_notes |-> n] : e \in ExScores, n \in TotalNotes}

\* No function is being applied.
PureInit ==
    /\ p_pc = "idle"
    /\ p_fn = "none"
    /\ p_in = <<>>
    /\ p_checks = FALSE
    /\ p_ret = "none"

CalculateGrade ==
    /\ p_pc = "call"
    /\ p_fn = "calculate_grade"
    /\ p_ret' = calculate_grade(p_in.ex_score, p_in.total_notes, p_checks)
    /\ p_pc' = "done"
    /\ UNCHANGED <<p_fn, p_in, p_checks>>
    /\ UNCHANGED notPure

\* The grade whose band contains ex_score / (2 total_notes), the bands cut
\* at k/9: the comparison 9 ex_score >= 2 k total_notes in exact arithmetic.
InBandFrom(ex_score, total_notes, k) ==
    WideGe(Times(ex_score, 9), Times(total_notes, 2 * k))

BandGrade(ex_score, total_notes) ==
    IF InBandFrom(ex_score, total_notes, 8) THEN "Aaa"
    ELSE IF InBandFrom(ex_score, total_notes, 7) THEN "Aa"
    ELSE IF InBandFrom(ex_score, total_notes, 6) THEN "A"
    ELSE IF InBandFrom(ex_score, total_notes, 5) THEN "B"
    ELSE IF InBandFrom(ex_score, total_notes, 4) THEN "C"
    ELSE IF InBandFrom(ex_score, total_notes, 3) THEN "D"
    ELSE IF InBandFrom(ex_score, total_notes, 2) THEN "E"
    ELSE "F"

C23_GradeTable ==
    (p_pc = "done" /\ p_fn = "calculate_grade"
        /\ p_in.total_notes = U32FromInt(1000)) =>
        /\ p_in.ex_score = U32FromInt(1778) => p_ret = "Aaa"
        /\ p_in.ex_score = U32FromInt(1555) => p_ret = "Aa"
        /\ p_in.ex_score = U32FromInt(0) => p_ret = "F"

\* C23 as amended: with total_notes = 1000 the grade is Aaa for ex_score =
\* 1778, A for ex_score = 1555 (0.7775 is below 7/9; Aa starts at 1556) and
\* F for ex_score = 0.
C23_GradeTableAmended ==
    (p_pc = "done" /\ p_fn = "calculate_grade"
        /\ p_in.total_notes = U32FromInt(1000)) =>
        /\ p_in.ex_score = U32FromInt(1778) => p_ret = "Aaa"
        /\ p_in.ex_score = U32FromInt(1777) => p_ret = "Aa"
        /\ p_in.ex_score = U32FromInt(1556) => p_ret = "Aa"
        /\ p_in.ex_score = U32FromInt(1555) => p_ret = "A"
        /\ p_in.ex_score = U32FromInt(0) => p_ret = "F"

\* C23 witness: the grade of ex_score 1555 over 1000 notes was computed, and
\* it is A.
C23_Witness ==
    /\ p_pc = "done"
    /\ p_fn = "calculate_grade"
    /\ p_in = [ex_score |-> U32FromInt(1555), total_notes |-> U32FromInt(1000)]
    /\ p_ret = "A"

\* ---- Lamp, Judge, PlayData ----

Lamp_NoPlay == 0

Lamp_FullCombo == 7

Lamp_Pfc == 8

\* The discriminants of Lamp, NoPlay to Pfc; Lamp derives Ord, which is the
\* order of the discriminants.
Lamps == Lamp_NoPlay..Lamp_Pfc

\* Judge::is_pfc.
is_pfc(judge) == judge.good = 0 /\ judge.bad = 0 /\ judge.poor = 0

upgrade_lamp_if_pfc_any_lamp(play) ==
    IF is_pfc(play.judge) THEN [play EXCEPT !.lamp = Lamp_Pfc] ELSE play

\* PlayData::upgrade_lamp_if_pfc, as the record after the call.
upgrade_lamp_if_pfc(play) ==
    IF is_pfc(play.judge) /\ play.lamp = Lamp_FullCombo
    THEN [play EXCEPT !.lamp = Lamp_Pfc]
    ELSE play

Judges ==
    {[pgreat |-> pg, great |-> 0, good |-> g, bad |-> b, poor |-> p] :
        pg \in {0, 1000}, g \in {0, 1}, b \in {0, 1}, p \in {0, 2}}

\* The records upgrade_lamp_if_pfc is called on.
PlayRecords ==
    {[lamp |-> l, judge |-> j, ex_score |-> 2 * j.pgreat + j.great,
      grade |-> g, gauge |-> 100, data_available |-> a] :
        l \in Lamps, j \in Judges, g \in {"Aaa", "F"}, a \in BOOLEAN}

UpgradeLampIfPfc ==
    /\ p_pc = "call"
    /\ p_fn = "upgrade_lamp_if_pfc"
    /\ p_ret' = upgrade_lamp_if_pfc(p_in)
    /\ p_pc' = "done"
    /\ UNCHANGED <<p_fn, p_in, p_checks>>
    /\ UNCHANGED notPure

\* C24: upgrade_lamp_if_pfc sets the lamp to Pfc if and only if the lamp is
\* FullCombo and the judge has good = bad = poor = 0; in every other case
\* the lamp is unchanged; no other field is modified, the lamp is never
\* lowered, and a second application changes nothing.
C24_UpgradeLampIfPfc ==
    (p_pc = "done" /\ p_fn = "upgrade_lamp_if_pfc") =>
        LET upgrade == /\ p_in.lamp = Lamp_FullCombo
                       /\ p_in.judge.good = 0
                       /\ p_in.judge.bad = 0
                       /\ p_in.judge.poor = 0
        IN  /\ upgrade => p_ret.lamp = Lamp_Pfc
            /\ ~upgrade => p_ret.lamp = p_in.lamp
            /\ \A f \in DOMAIN p_in \ {"lamp"} : p_ret[f] = p_in[f]
            /\ DOMAIN p_ret = DOMAIN p_in
            /\ p_ret.lamp >= p_in.lamp
            /\ upgrade_lamp_if_pfc(p_ret) = p_ret

\* C24 witness: S2 of the spec: a FullCombo with judge (1000, 0, 0, 0, 0)
\* became Pfc.
C24_Witness ==
    /\ p_pc = "done"
    /\ p_fn = "upgrade_lamp_if_pfc"
    /\ p_in.lamp = Lamp_FullCombo
    /\ p_in.judge = [pgreat |-> 1000, great |-> 0, good |-> 0, bad |-> 0,
                     poor |-> 0]
    /\ p_ret.lamp = Lamp_Pfc

\* ---- ScoreData ----

\* The length of the lamp, score and miss_count arrays of ScoreData.
SCORE_SLOTS == 9

\* The discriminants of Difficulty, SpB to DpL.
Difficulty_DpL == 9

Difficulties == 0..Difficulty_DpL

\* array[index]: the element, or the panic of an index out of bounds (the
\* bounds check is made in every build).
Index(array, index) ==
    IF index < Len(array)
    THEN [panic |-> FALSE, val |-> array[index + 1]]
    ELSE [panic |-> TRUE, val |-> 0]

\* array[index] = value.
IndexAssign(array, index, value) ==
    IF index < Len(array)
    THEN [panic |-> FALSE, val |-> [array EXCEPT ![index + 1] = value]]
    ELSE [panic |-> TRUE, val |-> 0]

\* ScoreData::new: the default of every array.
ScoreDataNew(song_id) ==
    [song_id |-> song_id,
     lamp |-> [i \in 1..SCORE_SLOTS |-> Lamp_NoPlay],
     score |-> [i \in 1..SCORE_SLOTS |-> 0],
     miss_count |-> [i \in 1..SCORE_SLOTS |-> None]]

\* ScoreData::get_lamp.
get_lamp(data, difficulty) == Index(data.lamp, difficulty)

\* ScoreData::get_score.
get_score(data, difficulty) == Index(data.score, difficulty)

\* ScoreData::set_lamp, as the ScoreData after the call.
set_lamp(data, difficulty, lamp) ==
    LET a == IndexAssign(data.lamp, difficulty, lamp)
    IN  IF a.panic THEN a ELSE [panic |-> FALSE, val |-> [data EXCEPT !.lamp = a.val]]

\* ScoreData::set_score, as the ScoreData after the call.
set_score(data, difficulty, score) ==
    LET a == IndexAssign(data.score, difficulty, score)
    IN  IF a.panic THEN a ELSE [panic |-> FALSE, val |-> [data EXCEPT !.score = a.val]]

GradeRank(grade) ==
    CASE grade = "F" -> 1 [] grade = "E" -> 2 [] grade = "D" -> 3
      [] grade = "C" -> 4 [] grade = "B" -> 5 [] grade = "A" -> 6
      [] grade = "Aa" -> 7 [] grade = "Aaa" -> 8

\* compare_with_personal_best with a best record: the comparison, or the
\* panic of an index.
compare_with_personal_best(play, best) ==
    LET diff_index == play.difficulty
        best_score == Index(best.score, diff_index)
        best_lamp == Index(best.lamp, diff_index)
        best_miss == Index(best.miss_count, diff_index)
    IN  IF best_score.panic \/ best_lamp.panic
        THEN [panic |-> TRUE, val |-> 0]
        ELSE LET best_grade ==
                     calculate_grade(U32FromInt(best_score.val),
                                     U32FromInt(play.total_notes), FALSE)
             IN  [panic |-> FALSE,
                  val |->
                    [score_diff |->
                        IF best_score.val > 0 /\ play.ex_score > best_score.val
                        THEN Some(play.ex_score - best_score.val)
                        ELSE None,
                     previous_grade |->
                        IF /\ best_score.val > 0
                           /\ play.total_notes > 0
                           /\ GradeRank(play.grade) > GradeRank(best_grade)
                        THEN Some(best_grade)
                        ELSE None,
                     previous_lamp |->
                        IF best_lamp.val # Lamp_NoPlay /\ play.lamp > best_lamp.val
                        THEN Some(best_lamp.val)
                        ELSE None,
                     miss_count_diff |->
                        IF play.miss_count_valid
                        THEN {play.miss_count - m :
                                 m \in {b \in best_miss.val : play.miss_count < b}}
                        ELSE None]]

\* The best records: a new one, and one with a clear on every chart.
ScoreDatas ==
    {ScoreDataNew("1000"),
     [song_id |-> "1000",
      lamp |-> [i \in 1..SCORE_SLOTS |-> 4],
      score |-> [i \in 1..SCORE_SLOTS |-> 1500],
      miss_count |-> [i \in 1..SCORE_SLOTS |-> Some(3)]]}

ScoreCalls == {"get_lamp", "get_score", "set_lamp", "set_score", "compare"}

\* The calls on a ScoreData: the record, the difficulty, and the play the
\* call is made for.
ScoreInputs ==
    {[data |-> d, difficulty |-> k, lamp |-> l, ex_score |-> e,
      grade |-> calculate_grade(U32FromInt(e), U32FromInt(1000), FALSE),
      total_notes |-> 1000, miss_count |-> m, miss_count_valid |-> v] :
        d \in ScoreDatas, k \in Difficulties, l \in {3, 7},
        e \in {1000, 1800}, m \in {1, 5}, v \in BOOLEAN}

\* One of the accessors of ScoreData, or the personal-best comparison.
ScoreCall ==
    /\ p_pc = "call"
    /\ p_fn \in ScoreCalls
    /\ p_ret' =
          CASE p_fn = "get_lamp" -> get_lamp(p_in.data, p_in.difficulty)
            [] p_fn = "get_score" -> get_score(p_in.data, p_in.difficulty)
            [] p_fn = "set_lamp" ->
                   set_lamp(p_in.data, p_in.difficulty, p_in.lamp)
            [] p_fn = "set_score" ->
                   set_score(p_in.data, p_in.difficulty, p_in.ex_score)
            [] p_fn = "compare" -> compare_with_personal_best(p_in, p_in.data)
    /\ p_pc' = "done"
    /\ UNCHANGED <<p_fn, p_in, p_checks>>
    /\ UNCHANGED notPure

\* C29: for every one of the ten Difficulty values, get_lamp, get_score,
\* set_lamp, set_score and the personal-best comparison access an existing
\* slot of the arrays: no difficulty produces an out-of-range index.
C29_DifficultyIndexInRange ==
    (p_pc = "done" /\ p_fn \in ScoreCalls) => ~p_ret.panic

\* ---- OffsetSearcher::search_near_expected, as the loop computes it ----

\* What one call gives: a panic (the overflow check of a checked build), or
\* the Option it returns.
NearPanic == [panic |-> TRUE, found |-> None]

NearReturn(found) == [panic |-> FALSE, found |-> found]

\* expected + delta does not fit u64 (u64 is written by its two's complement
\* reading, delta is small and not negative).
NearAddOverflows(expected, delta) == expected < 0 /\ expected + delta >= 0

\* mod.rs lines 1298-1318: the iterations from delta on.  valid is the set of
\* addresses the validator accepts; checks tells whether the build checks
\* arithmetic overflow.
RECURSIVE SearchNearLoop(_, _, _, _, _)
SearchNearLoop(expected, range, valid, delta, checks) ==
    IF ~(delta <= range)
    THEN NearReturn(None)
    ELSE IF delta = 0
    THEN IF expected % 4 = 0 /\ expected \in valid
         THEN NearReturn(Some(expected))
         ELSE SearchNearLoop(expected, range, valid, delta + 4, checks)
    ELSE IF /\ UGe(expected, delta)
            /\ (expected - delta) % 4 = 0
            /\ (expected - delta) \in valid
    THEN NearReturn(Some(expected - delta))
    ELSE IF NearAddOverflows(expected, delta) /\ checks
    THEN NearPanic
    ELSE IF /\ WrappingAdd(expected, delta) % 4 = 0
            /\ WrappingAdd(expected, delta) \in valid
    THEN NearReturn(Some(WrappingAdd(expected, delta)))
    ELSE SearchNearLoop(expected, range, valid, delta + 4, checks)

\* mod.rs lines 1290-1321.
SearchNearExpectedLoop(expected, range, valid, checks) ==
    SearchNearLoop(expected, range, valid, 0, checks)

\* Expected addresses: multiples of 4 and not, at the bottom of the address
\* space and at its top (0 - 4 is 2^64 - 4).
NearExpecteds == {0, 4, 6, 8, 0 - 4, 0 - 6}

NearRanges == {0, 4, 7, 8}

NearAddresses == {0, 2, 4, 8, 12, 0 - 4, 0 - 8}

NearInputs ==
    { [expected |-> e, range |-> r, valid |-> v] :
        e \in NearExpecteds, r \in NearRanges, v \in SUBSET NearAddresses }

SearchNearExpected ==
    /\ p_pc = "call"
    /\ p_fn = "search_near_expected"
    /\ p_ret' = SearchNearExpectedLoop(p_in.expected, p_in.range, p_in.valid, p_checks)
    /\ p_pc' = "done"
    /\ UNCHANGED <<p_fn, p_in, p_checks>>
    /\ UNCHANGED notPure

\* |a - expected| <= range on u64 values: two addresses at opposite ends of
\* the address space are further apart than any range.
WithinRange(a, expected, range) ==
    /\ (a < 0) = (expected < 0)
    /\ Dist(a, expected) <= range

\* The 4-byte-aligned, validator-passing addresses within range of expected.
NearCandidates(in) ==
    {a \in in.valid : a % 4 = 0 /\ WithinRange(a, in.expected, in.range)}

\* a is a nearest candidate, the lower one of two equally distant ones.
NearestOf(a, in) ==
    /\ a \in NearCandidates(in)
    /\ \A b \in NearCandidates(in) :
          /\ Dist(a, in.expected) <= Dist(b, in.expected)
          /\ (Dist(a, in.expected) = Dist(b, in.expected) => ULe(a, b))

\* C28: search_near_expected returns a 4-byte-aligned, validator-passing
\* address within range of expected that is nearest to expected (the lower
\* one of two equally distant ones), and returns None exactly when no
\* 4-byte-aligned address within range of expected passes the validator.
C28_NearestAlignedCandidate ==
    (p_pc = "done" /\ p_fn = "search_near_expected") =>
        /\ ~p_ret.panic
        /\ (p_ret.found = None) = (NearCandidates(p_in) = {})
        /\ \A a \in p_ret.found : NearestOf(a, p_in)

\* A function and its arguments.
PureInputInit ==
    /\ p_pc = "call"
    /\ p_checks \in BOOLEAN
    /\ p_ret = "none"
    /\ \/ p_fn = "calculate_grade" /\ p_in \in GradeInputs
       \/ p_fn = "upgrade_lamp_if_pfc" /\ p_in \in PlayRecords
       \/ p_fn \in ScoreCalls /\ p_in \in ScoreInputs
       \/ p_fn = "search_near_expected" /\ p_in \in NearInputs

PureNext ==
    \/ CalculateGrade
    \/ UpgradeLampIfPfc
    \/ ScoreCall
    \/ SearchNearExpected

(***************************************************************************)
(* The tracker loop and the ScoreMap                                       *)
(*                                                                         *)
(* Infst holds current_playing and the ScoreMap; tracking.rs replaces the  *)
(* ScoreMap at every attachment.  The poll loop follows the transition     *)
(* table of the tracker loop.  The ScoreMap is the lamp per                *)
(* (song_id, difficulty), NoPlay where the map has no entry.               *)
(***************************************************************************)

TrackSongs == {1000, 1001}

TrackDifficulties == {3}

TrackKeys == TrackSongs \X TrackDifficulties

\* ScoreMap::new(): no entry, every lamp reads NoPlay.
ScoreMapNew == [k \in TrackKeys |-> Lamp_NoPlay]

\* What ScoreMap::load_from_memory finds in the memory of the game.
LoadedMaps == {[k \in TrackKeys |-> l] : l \in {Lamp_NoPlay, 4, Lamp_FullCombo}}

\* What the harvest of a result tick reads: song, difficulty, lamp, judge.
Harvests ==
    {[song_id |-> s, difficulty |-> d, lamp |-> l, judge |-> j] :
        s \in TrackSongs \cup {0}, d \in TrackDifficulties, l \in {1, Lamp_FullCombo},
        j \in {[pgreat |-> 1000, great |-> 0, good |-> g, bad |-> 0, poor |-> 0] :
                  g \in {0, 1}}}

\* Infst::with_config: no song armed, an empty ScoreMap; the detector new.
TrackInit ==
    /\ t_prev = "Unknown"
    /\ t_playing = None
    /\ t_lamps = ScoreMapNew
    /\ t_last = "none"
    /\ t_snapshot = None
    /\ t_record = None

\* tracking.rs at an attachment: the ScoreMap loaded from memory replaces
\* the one held (Infst::set_score_map); the tracker loop starts afresh.
LoadScoreMap ==
    /\ \E loaded \in LoadedMaps : t_lamps' = loaded
    /\ t_prev' = "Unknown"
    /\ t_last' = "loaded"
    /\ t_snapshot' = None
    /\ t_record' = None
    /\ UNCHANGED t_playing
    /\ UNCHANGED notTrack

\* tracking.rs at an attachment, load_from_memory returning Err: a warning,
\* and ScoreMap::new() replaces the ScoreMap held.
LoadScoreMapFails ==
    /\ t_lamps' = ScoreMapNew
    /\ t_prev' = "Unknown"
    /\ t_last' = "loaded"
    /\ t_snapshot' = None
    /\ t_record' = None
    /\ UNCHANGED t_playing
    /\ UNCHANGED notTrack

\* The state of the tick, from the markers read.
TickState(m54, m55, sel) == detect(t_prev, m54, m55, sel).ret

\* The record emitted for a harvest: the lamp upgraded to Pfc if applicable.
EmittedRecord(h) == upgrade_lamp_if_pfc(h)

\* "Update ScoreMap using monotone rules": the lamp is stored when it is
\* above the stored one.
UpdateLamp(lamps, rec) ==
    LET k == <<rec.song_id, rec.difficulty>>
    IN  IF rec.lamp > lamps[k] THEN [lamps EXCEPT ![k] = rec.lamp] ELSE lamps

UpdateLamp_overwrite(lamps, rec) ==
    [lamps EXCEPT ![<<rec.song_id, rec.difficulty>>] = rec.lamp]

CrossCheck_none(playing, h) == h.song_id # 0

\* The cross-check of a harvest against current_playing.
CrossCheck(playing, h) ==
    \E armed \in playing : h.song_id = armed[1]

\* A tick entering Playing: current_playing is armed with the (song_id,
\* difficulty) of CurrentSong, or with nothing when the read fails.
TickArm ==
    /\ \E m54, m55 \in MarkerValues, sel \in SelectValues :
          /\ t_prev # "Playing"
          /\ TickState(m54, m55, sel) = "Playing"
    /\ t_playing' \in {Some(k) : k \in TrackKeys} \cup {None}
    /\ t_prev' = "Playing"
    /\ t_last' = "armed"
    /\ t_snapshot' = None
    /\ t_record' = None
    /\ UNCHANGED t_lamps
    /\ UNCHANGED notTrack

\* A tick Playing -> ResultScreen: the harvest is cross-checked, and emitted
\* (record, ScoreMap, session file) or discarded.
TickResult ==
    /\ \E m54, m55 \in MarkerValues, sel \in SelectValues :
          /\ t_prev = "Playing"
          /\ TickState(m54, m55, sel) = "ResultScreen"
    /\ \E h \in Harvests :
          /\ t_snapshot' = Some(h)
          /\ IF CrossCheck(t_playing, h)
             THEN /\ t_record' = Some(EmittedRecord(h))
                  /\ t_lamps' = UpdateLamp(t_lamps, EmittedRecord(h))
                  /\ t_last' = "emitted"
             ELSE /\ t_record' = None
                  /\ UNCHANGED t_lamps
                  /\ t_last' = "discarded"
    /\ t_prev' = "ResultScreen"
    /\ UNCHANGED t_playing
    /\ UNCHANGED notTrack

\* Any other tick: only the state moves.
TickOther ==
    /\ \E m54, m55 \in MarkerValues, sel \in SelectValues :
          LET cur == TickState(m54, m55, sel)
          IN  /\ ~(t_prev # "Playing" /\ cur = "Playing")
              /\ ~(t_prev = "Playing" /\ cur = "ResultScreen")
              /\ t_prev' = cur
    /\ t_last' = "none"
    /\ t_snapshot' = None
    /\ t_record' = None
    /\ UNCHANGED <<t_playing, t_lamps>>
    /\ UNCHANGED notTrack

TrackNext ==
    \/ LoadScoreMap
    \/ LoadScoreMapFails
    \/ TickArm
    \/ TickResult
    \/ TickOther

\* No step replaces a stored lamp with a lower one.
LampsNotLowered == \A k \in TrackKeys : t_lamps'[k] >= t_lamps[k]

\* C25: for every (song_id, difficulty), over any sequence of emitted plays
\* and score-map updates, the lamp stored in the ScoreMap never decreases in
\* the order NoPlay < Failed < .. < FullCombo < Pfc.
C25_StoredLampMonotone == [][LampsNotLowered]_vars

\* A tick that emits (a record, a ScoreMap update) made a harvest whose
\* song_id is the armed one.
EmitsOnlyCrossChecked ==
    (t_record' # None \/ (t_last' # "loaded" /\ t_lamps' # t_lamps))
        => /\ t_prev = "Playing" /\ t_prev' = "ResultScreen"
           /\ t_playing # None
           /\ \E h \in t_snapshot', armed \in t_playing :
                 h.song_id = armed[1]

\* A result tick whose harvest disagrees with the armed song, or with no
\* song armed, leaves record and ScoreMap alone.
DiscardsOthers ==
    (t_prev = "Playing" /\ t_prev' = "ResultScreen"
        /\ \/ t_playing = None
           \/ \E h \in t_snapshot', armed \in t_playing : h.song_id # armed[1])
        => /\ t_record' = None
           /\ t_lamps' = t_lamps
           /\ t_last' = "discarded"

\* C26: on a Playing -> ResultScreen transition the tracker emits a play
\* record (and updates the ScoreMap) only if the song_id of the harvested
\* PlayData equals the song_id armed in current_playing; a snapshot that
\* disagrees, or with no song armed, is discarded without emitting.
C26_EmitOnlyCrossChecked == [][EmitsOnlyCrossChecked /\ DiscardsOthers]_vars

\* C26 witness: a harvest of a song other than the armed one was discarded,
\* with a lamp stored by an earlier play.
C26_Witness ==
    /\ t_last = "discarded"
    /\ t_record = None
    /\ \E k \in TrackKeys : t_lamps[k] = Lamp_Pfc
    /\ \E h \in t_snapshot, armed \in t_playing : h.song_id # armed[1]

(***************************************************************************)
(* Specifications                                                          *)
(***************************************************************************)

\* Everything but the pure functions.
StateInit == DetInit /\ SigInit /\ AttInit /\ SearchInit /\ GateInit

\* No pure function is being applied.
FunInit ==
    ScanInit /\ ResolveInit /\ SigSearchInit /\ ValidatorInit /\ CacheInit
    /\ PureInit
    /\ TrackInit

Init == StateInit /\ FunInit

Next == DetNext

\* The state detector alone.
Spec == Init /\ [][Next]_vars

NextShutdown == SigNext

\* The shutdown signal with its waiting and triggering threads.
SpecShutdown == Init /\ [][NextShutdown]_vars

NextAttach == AttNext

\* The tracking command with its retry loops and the triggering threads.
SpecAttach == Init /\ [][NextAttach]_vars

\* The same, where the tracking thread keeps running and time passes; nothing
\* obliges anybody to trigger the shutdown.
FairSpecAttach ==
    /\ SpecAttach
    /\ WF_vars(LoopStep)
    /\ WF_vars(TimerExpire(LoopThread))

NextGate == GateNext

\* validate_signature_offsets applied to a collection and a memory.
InitGate == DetInit /\ SigInit /\ AttInit /\ SearchInit /\ GateInputInit /\ FunInit

SpecGate == InitGate /\ [][NextGate]_vars

NextSearch == SearchNext

\* One call of search_all_with_signatures.
SpecSearch == Init /\ [][NextSearch]_vars

NextScan == ScanNext

InitScan ==
    StateInit /\ ScanInputInit /\ ResolveInit /\ SigSearchInit /\ ValidatorInit
    /\ CacheInit
    /\ PureInit
    /\ TrackInit

\* scan_code_for_pattern applied to a pattern and a memory.
SpecScan == InitScan /\ [][NextScan]_vars

NextResolve == ResolveNext

InitResolve ==
    StateInit /\ ScanInit /\ ResolveInputInit /\ SigSearchInit /\ ValidatorInit
    /\ CacheInit
    /\ PureInit
    /\ TrackInit

\* resolve_signature_targets applied to a signature, its matches, a memory.
SpecResolve == InitResolve /\ [][NextResolve]_vars

NextSigSearch == SigSearchNext

InitSigSearch ==
    StateInit /\ ScanInit /\ ResolveInit /\ SigSearchInputInit /\ ValidatorInit
    /\ CacheInit
    /\ PureInit
    /\ TrackInit

\* search_offset_by_signature applied to an entry and a memory.
SpecSigSearch == InitSigSearch /\ [][NextSigSearch]_vars

NextValidator == ValidatorNext

InitValidator ==
    StateInit /\ ScanInit /\ ResolveInit /\ SigSearchInit /\ ValidatorInputInit
    /\ CacheInit
    /\ PureInit
    /\ TrackInit

\* A validator applied to an address and a memory.
SpecValidator == InitValidator /\ [][NextValidator]_vars

NextCache == CacheNext

InitCache ==
    StateInit /\ ScanInit /\ ResolveInit /\ SigSearchInit /\ ValidatorInit
    /\ CacheInputInit
    /\ PureInit
    /\ TrackInit

\* The offset cache: a cache checked, saved, read back, tried.
SpecCache == InitCache /\ [][NextCache]_vars

NextPure == PureNext

InitPure ==
    StateInit /\ ScanInit /\ ResolveInit /\ SigSearchInit /\ ValidatorInit
    /\ CacheInit
    /\ PureInputInit
    /\ TrackInit

\* A function of the data model applied to its arguments.
SpecPure == InitPure /\ [][NextPure]_vars

NextTrack == TrackNext

\* The tracker loop over attachments, ticks and plays.
SpecTrack == Init /\ [][NextTrack]_vars

====
